---- MODULE Spec2Model ----
(***************************************************************************)
(* Model of the Soup Cookoff voice assistant:                              *)
(*   - the ticket inventory and the purchase paths of services/payments.ts *)
(*     (processVoicePayment, createTicketPaymentIntent, the Stripe         *)
(*     webhook handler) as driven by tools.purchaseTickets;                *)
(*   - the tool dispatch layer (handleToolCall) and the tool-call handling *)
(*     of OpenAIRealtimeClient.                                            *)
(* Every await of the TypeScript source is a step boundary: between two    *)
(* awaits a handler runs without interruption (one Node.js event loop),    *)
(* and other handlers interleave only at the awaits.                       *)
(***************************************************************************)
EXTENDS Integers, Sequences, FiniteSets, TLC

\* ------------------------------------------------------------------ bounds
NumVoice == 2
NumWeb == 1
GaCapacity == 2
VipCapacity == 1
MaxQuantity == 2
MaxDeliveries == 1
MaxCalls == 2
ToolTimeoutTicks == 2
MaxQuestions == 1
MaxSockets == 2
MaxToolCalls == 1
ConnectTimeoutTicks == 2
MaxReconnects == 1
NumEvents == 4
NumRecordings == 4
NumSids == 2
MaxCallbacks == 2
MaxClock == 2
MaxRedeliveries == 1

\* NumVoice: concurrent purchaseTickets invocations; NumWeb:
\* createTicketPaymentIntent requests; GaCapacity, VipCapacity: the capacities
\* of the modelled event; MaxQuantity: the largest quantity asked for;
\* MaxDeliveries: payment_intent.succeeded deliveries per payment intent;
\* MaxCalls: tool-call events received on one model session;
\* ToolTimeoutTicks: the clock ticks a bounded external-call timeout allows;
\* MaxQuestions: answerQuestion invocations of one run; MaxSockets: the
\* connect() calls of one client; MaxToolCalls: the tool-call events one
\* client receives; ConnectTimeoutTicks: the clock ticks of the connect
\* timeout; MaxReconnects: the reconnect attempts the call state machine allows;
\* NumEvents: the rows of the event table; NumRecordings: the voicemail
\* recordings whose callback arrives; NumSids: the CallSids of the status
\* callbacks; MaxCallbacks: the status callbacks of one run; MaxClock: the
\* largest reading of the clock that stamps endedAt; MaxRedeliveries: the
\* times Stripe delivers a payment_intent.succeeded event again.

VoiceProcs == 1..NumVoice
WebProcs == 1..NumWeb
\* Stripe payment intent ids: voice invocation p creates intent p, web request w
\* creates intent NumVoice + w.
IntentIds == 1..(NumVoice + NumWeb)
Tiers == {"GA", "VIP"}
Quantities == 1..MaxQuantity
EventId == "e1"          \* the id of the one event row
MissingEventId == "e0"   \* an id no event row has
Unset == "unset"         \* args.eventId not given
CallIds == 1..MaxCalls

VARIABLES
  event,           \* the event row: gaSold, vipSold, gaCapacity, vipCapacity
  ticketPurchase,  \* the ticketPurchase table
  paymentIntents,  \* Stripe: intent id -> status
  voice,           \* purchaseTickets invocation p: its position and locals
  web,             \* createTicketPaymentIntent request w: position and locals
  webhook,         \* handlePaymentSuccess per intent: position, deliveries
  wsOpen,          \* the model session socket is OPEN
  calls,           \* tool-call event k of the session and its handling
  outbox,          \* the messages written to the model session socket
  businessConfig,  \* the businessConfig row (or none)
  aq,              \* the answerQuestion invocation: its position and locals
  citationsLog,    \* the citationsLog table
  policy,          \* what getPolicy last returned
  client,          \* OpenAIRealtimeClient: ws, connected, pendingBytes, heartbeatTimer
  sockets,         \* readyState of every WebSocket the client created
  step,            \* the last operation: what it sent and which callbacks it invoked
  hist,            \* what the owner, the audio turn and each socket have seen so far
  inflight,        \* the handleToolCall invocations of the client
  events,          \* the rows of the event table that getEventInfo queries
  lookup,          \* the last getEventInfo call: what it read and returned
  vm,              \* POST /voice/voicemail per recording: position of the handler
  jobs,            \* the transcription queue: recordings enqueued
  callLog,         \* the callLog table: CallSid -> row (or none)
  statusReq,       \* POST /voice/status per callback: position and locals
  clock            \* the reading of new Date()

purchaseVars == <<event, ticketPurchase, paymentIntents, voice, web, webhook>>
dispatchVars == <<wsOpen, calls, outbox>>
knowledgeVars == <<businessConfig, aq, citationsLog, policy>>
clientVars == <<client, sockets, step, hist, inflight>>
lookupVars == <<events, lookup>>
telephonyVars == <<vm, jobs, callLog, statusReq, clock>>
otherVars == <<knowledgeVars, clientVars, lookupVars, telephonyVars>>
vars == <<purchaseVars, dispatchVars, otherVars>>

\* ------------------------------------------------------- payments.ts helpers
NoArgs == [ticketType |-> "GA", quantity |-> 0, eventId |-> Unset]
NoResult == [pending |-> TRUE]

\* const sold = ticketType === 'VIP' ? event.vipSold : event.gaSold
SoldOf(ev, t) == IF t = "VIP" THEN ev.vipSold ELSE ev.gaSold
\* const capacity = ticketType === 'VIP' ? event.vipCapacity : event.gaCapacity
CapacityOf(ev, t) == IF t = "VIP" THEN ev.vipCapacity ELSE ev.gaCapacity

\* prisma.event.update({ data: { vipSold | gaSold: { increment: quantity } } })
IncrementSold(ev, t, q) ==
  IF t = "VIP" THEN [ev EXCEPT !.vipSold = @ + q]
               ELSE [ev EXCEPT !.gaSold = @ + q]

\* `SCO-${uuidv4().slice(0, 8).toUpperCase()}`: one fresh code per payment intent
ConfirmationCode(i) == "SCO-" \o ToString(i)

\* `Only ${capacity - sold} ${request.ticketType} tickets remaining`
OnlyRemaining(n, t) == "Only " \o ToString(n) \o " " \o t \o " tickets remaining"

\* PaymentResult
Success(i) == [success |-> TRUE, confirmationCode |-> ConfirmationCode(i)]
Failure(msg) == [success |-> FALSE, error |-> msg]

\* metadata of payment intent i: the arguments of the request that created it
Metadata(i) == IF i <= NumVoice THEN voice[i].args ELSE web[i - NumVoice].args

\* the data of prisma.ticketPurchase.create
PurchaseRecord(i, status) ==
  [stripePaymentId |-> i,
   ticketType |-> Metadata(i).ticketType,
   quantity |-> Metadata(i).quantity,
   paymentStatus |-> status,
   confirmationCode |-> ConfirmationCode(i)]

\* ------------------------------------------------------------------- Init
\* One unit of each tier remains; nothing is in flight.
\* The event is active and to come (past: its date is before new Date()).
\* Locals of a purchaseTickets invocation: seenSold is the sold count its
\* findUnique read, seenClosed that the event it read was inactive or past,
\* charged says stripe.paymentIntents.create ran, incremented
\* that it incremented the sold counter, staleWrite that the counter had changed
\* between its read and its write, pvp is the result of processVoicePayment,
\* result what handleToolCall returns for it, sms and slack the two
\* notification promises.
PurchaseInit ==
  /\ event = [gaSold |-> GaCapacity - 1, vipSold |-> VipCapacity - 1,
              gaCapacity |-> GaCapacity, vipCapacity |-> VipCapacity,
              active |-> TRUE, past |-> FALSE]
  /\ ticketPurchase = {}
  /\ paymentIntents = [i \in IntentIds |-> "none"]
  /\ voice = [p \in VoiceProcs |->
                [pc |-> "idle", args |-> NoArgs, seenSold |-> -1, seenClosed |-> FALSE,
                 charged |-> FALSE, incremented |-> FALSE, staleWrite |-> FALSE,
                 pvp |-> NoResult, result |-> NoResult,
                 sms |-> "none", slack |-> "none"]]
  /\ web = [w \in WebProcs |-> [pc |-> "idle", args |-> NoArgs, result |-> NoResult]]
  /\ webhook = [i \in IntentIds |-> [pc |-> "idle", delivered |-> 0,
                                    attemptFailed |-> FALSE]]

\* ---------------------------------------------- tools.purchaseTickets (voice)
\* processVoicePayment returned { success: false, error }: purchaseTickets maps it
\* to { ok: false, error: result.error } (else branch of `if (result.success)`).
FailVoice(v, msg) ==
  [v EXCEPT !.pvp = Failure(msg),
            !.result = [ok |-> FALSE, error |-> msg],
            !.pc = "done"]

\* purchaseTickets up to the call of processVoicePayment: logIntent (its own
\* errors swallowed), the eventId defaults to the next active event.
OnSale(ev) == ev.active /\ ~ev.past

\* purchaseTickets: with no args.eventId, findFirst({where: {active: true,
\* date: {gte: new Date()}}}) picks the event, and finds none when the event
\* is inactive or past: { ok: false, error: 'No upcoming events available' }.
\* An args.eventId is passed on as it is.
Invoke(p, t, q, eid) ==
  /\ voice[p].pc = "idle"
  /\ voice' = [voice EXCEPT ![p] =
       IF eid = Unset /\ ~OnSale(event)
         THEN [@ EXCEPT !.args = [ticketType |-> t, quantity |-> q,
                                  eventId |-> Unset],
                        !.result = [ok |-> FALSE,
                                    error |-> "No upcoming events available"],
                        !.pc = "done"]
         ELSE [@ EXCEPT !.args = [ticketType |-> t, quantity |-> q,
                                  eventId |-> IF eid = Unset THEN EventId ELSE eid],
                        !.pc = "findEvent"]]
  /\ UNCHANGED <<event, ticketPurchase, paymentIntents, web, webhook, dispatchVars, otherVars>>

\* processVoicePayment: prisma.event.findUnique, `if (!event) return ...`.
\* No check of event.active, of the date or of the availability follows: the
\* price is computed and the card charged.
FindEvent(p) ==
  /\ voice[p].pc = "findEvent"
  /\ voice' = [voice EXCEPT ![p] =
       IF voice[p].args.eventId # EventId
         THEN FailVoice(@, "Event not found")
         ELSE [@ EXCEPT !.seenSold = SoldOf(event, voice[p].args.ticketType),
                        !.seenClosed = ~OnSale(event),
                        !.pc = "pay"]]
  /\ UNCHANGED <<event, ticketPurchase, paymentIntents, web, webhook, dispatchVars, otherVars>>

\* What Stripe answers to paymentMethods.create followed by
\* paymentIntents.create({ confirm: true }).
PayOutcomes == {"method_error", "declined", "requires_action", "succeeded"}

\* processVoicePayment: the two Stripe calls. A throw of either is caught and
\* returned as { success: false, error: error.message }; a status other than
\* 'succeeded' returns 'Payment requires additional action'.
Pay(p, outcome) ==
  /\ voice[p].pc = "pay"
  /\ voice' = [voice EXCEPT ![p] =
       CASE outcome = "method_error" -> FailVoice(@, "Your card number is incorrect.")
         [] outcome = "declined" ->
              FailVoice([@ EXCEPT !.charged = TRUE], "Your card was declined.")
         [] outcome = "requires_action" ->
              FailVoice([@ EXCEPT !.charged = TRUE], "Payment requires additional action")
         [] outcome = "succeeded" -> [@ EXCEPT !.charged = TRUE, !.pc = "record"]]
  /\ paymentIntents' =
       IF outcome \in {"requires_action", "succeeded"}
         THEN [paymentIntents EXCEPT ![p] = outcome]
         ELSE paymentIntents
  /\ UNCHANGED <<event, ticketPurchase, web, webhook, dispatchVars, otherVars>>

\* processVoicePayment: prisma.ticketPurchase.create({ paymentStatus: 'completed' });
\* a database error is caught by the function's catch.
CreateRecord(p, dbOk) ==
  /\ voice[p].pc = "record"
  /\ IF dbOk
       THEN /\ ticketPurchase' = ticketPurchase \cup {PurchaseRecord(p, "completed")}
            /\ voice' = [voice EXCEPT ![p].pc = "counter"]
       ELSE /\ voice' = [voice EXCEPT ![p] = FailVoice(@, "database error")]
            /\ UNCHANGED ticketPurchase
  /\ UNCHANGED <<event, paymentIntents, web, webhook, dispatchVars, otherVars>>

\* processVoicePayment: prisma.event.update({ increment }), unconditional, then
\* `return { success: true, confirmationCode }`; a database error is caught.
UpdateCounter(p, dbOk) ==
  /\ voice[p].pc = "counter"
  /\ IF dbOk
       THEN /\ event' = IncrementSold(event, voice[p].args.ticketType,
                                      voice[p].args.quantity)
            /\ voice' = [voice EXCEPT
                 ![p].incremented = TRUE,
                 ![p].staleWrite = (SoldOf(event, voice[p].args.ticketType)
                                      # voice[p].seenSold),
                 ![p].pvp = Success(p),
                 ![p].pc = "details"]
       ELSE /\ voice' = [voice EXCEPT ![p] = FailVoice(@, "database error")]
            /\ UNCHANGED event
  /\ UNCHANGED <<ticketPurchase, paymentIntents, web, webhook, dispatchVars, otherVars>>

\* purchaseTickets, `if (result.success)`: the event is read again for the SMS
\* text (awaited), then sendTicketConfirmation(...).catch and
\* notifyTicketPurchase(...).catch are started and not awaited. A throw of the
\* awaited read rejects purchaseTickets; handleToolCall's catch returns
\* { error: err.message }.
Details(p, dbOk) ==
  /\ voice[p].pc = "details"
  /\ voice' = [voice EXCEPT ![p] =
       IF dbOk
         THEN [@ EXCEPT !.sms = "pending", !.slack = "pending", !.pc = "notified"]
         ELSE [@ EXCEPT !.result = [error |-> "database error"], !.pc = "done"]]
  /\ UNCHANGED <<event, ticketPurchase, paymentIntents, web, webhook, dispatchVars, otherVars>>

\* A purchaseTickets that awaited its two notifications and let a rejection
\* propagate, in place of starting them with .catch and returning.
PurchaseTicketsResultAwaited(p) ==
  IF voice[p].sms = "rejected" \/ voice[p].slack = "rejected"
    THEN [error |-> "notification failed"]
    ELSE [ok |-> TRUE, confirmationCode |-> voice[p].pvp.confirmationCode,
          smsSent |-> TRUE]

\* purchaseTickets: the object returned after the two notifications were started
\* (its message text is a function of the confirmation code and the email).
PurchaseTicketsResult(p) ==
  [ok |-> TRUE, confirmationCode |-> voice[p].pvp.confirmationCode, smsSent |-> TRUE]

\* purchaseTickets: `return { ok: true, confirmationCode, smsSent: true, message }`.
\* Nothing is awaited between starting the notifications and the return; the
\* step is the returned promise resolving into handleToolCall's `await tool(args)`,
\* which a notification that rejects at once may precede.
ReturnPurchase(p) ==
  /\ voice[p].pc = "notified"
  /\ voice' = [voice EXCEPT ![p].result = PurchaseTicketsResult(p), ![p].pc = "done"]
  /\ UNCHANGED <<event, ticketPurchase, paymentIntents, web, webhook, dispatchVars, otherVars>>

\* How a started notification promise can settle: resolved { success: true },
\* resolved { success: false } (sendSMS / sendSlackNotification caught the
\* error), or rejected (handled by the .catch that logs). It may also stay
\* pending forever.
NotifyOutcomes == {"sent", "failed", "rejected"}

SettleSms(p, o) ==
  /\ voice[p].sms = "pending"
  /\ voice' = [voice EXCEPT ![p].sms = o]
  /\ UNCHANGED <<event, ticketPurchase, paymentIntents, web, webhook, dispatchVars, otherVars>>

SettleSlack(p, o) ==
  /\ voice[p].slack = "pending"
  /\ voice' = [voice EXCEPT ![p].slack = o]
  /\ UNCHANGED <<event, ticketPurchase, paymentIntents, web, webhook, dispatchVars, otherVars>>

\* ------------------------------------------- createTicketPaymentIntent (web)
FailWeb(r, msg) == [r EXCEPT !.result = Failure(msg), !.pc = "done"]

RequestIntent(w, t, q) ==
  /\ web[w].pc = "idle"
  /\ web' = [web EXCEPT ![w].args = [ticketType |-> t, quantity |-> q,
                                     eventId |-> EventId],
                        ![w].pc = "findEvent"]
  /\ UNCHANGED <<event, ticketPurchase, paymentIntents, voice, webhook, dispatchVars, otherVars>>

\* prisma.event.findUnique, `if (!event.active) return { success: false, error:
\* 'Event is not available for ticket sales' }` (the date is not looked at),
\* then `if (sold + request.quantity > capacity) return { success: false,
\* error: "Only ... remaining" }`.
CheckAvailability(w) ==
  /\ web[w].pc = "findEvent"
  /\ LET t == web[w].args.ticketType IN
       web' = [web EXCEPT ![w] =
         IF ~event.active
           THEN FailWeb(@, "Event is not available for ticket sales")
         ELSE IF SoldOf(event, t) + web[w].args.quantity > CapacityOf(event, t)
           THEN FailWeb(@, OnlyRemaining(CapacityOf(event, t) - SoldOf(event, t), t))
           ELSE [@ EXCEPT !.pc = "stripe"]]
  /\ UNCHANGED <<event, ticketPurchase, paymentIntents, voice, webhook, dispatchVars, otherVars>>

\* stripe.paymentIntents.create (not confirmed yet); a throw is caught.
CreateIntent(w, stripeOk) ==
  /\ web[w].pc = "stripe"
  /\ IF stripeOk
       THEN /\ paymentIntents' = [paymentIntents EXCEPT
                                    ![NumVoice + w] = "requires_payment_method"]
            /\ web' = [web EXCEPT ![w].pc = "record"]
       ELSE /\ web' = [web EXCEPT ![w] = FailWeb(@, "Payment processing failed")]
            /\ UNCHANGED paymentIntents
  /\ UNCHANGED <<event, ticketPurchase, voice, webhook, dispatchVars, otherVars>>

\* prisma.ticketPurchase.create({ paymentStatus: 'pending' }), then the success
\* result with the client secret.
CreatePending(w, dbOk) ==
  /\ web[w].pc = "record"
  /\ IF dbOk
       THEN /\ ticketPurchase' = ticketPurchase
                                   \cup {PurchaseRecord(NumVoice + w, "pending")}
            /\ web' = [web EXCEPT ![w].result = Success(NumVoice + w),
                                  ![w].pc = "done"]
       ELSE /\ web' = [web EXCEPT ![w] = FailWeb(@, "database error")]
            /\ UNCHANGED ticketPurchase
  /\ UNCHANGED <<event, paymentIntents, voice, webhook, dispatchVars, otherVars>>

\* The customer confirms the intent in the browser with the client secret.
CustomerPays(i) ==
  /\ paymentIntents[i] = "requires_payment_method"
  /\ paymentIntents' = [paymentIntents EXCEPT ![i] = "succeeded"]
  /\ UNCHANGED <<event, ticketPurchase, voice, web, webhook, dispatchVars, otherVars>>

\* ---------------------------------------------------- handlePaymentSuccess
\* prisma.ticketPurchase.updateMany({ where: { stripePaymentId }, data:
\* { paymentStatus: 'completed' } })
MarkCompleted(table, i) ==
  {IF r.stripePaymentId = i THEN [r EXCEPT !.paymentStatus = "completed"] ELSE r
     : r \in table}

\* Stripe delivers payment_intent.succeeded for every succeeded intent of the
\* account, the voice path's included (its metadata carries a confirmationCode).
\* First await of handlePaymentSuccess: the status update.
WebhookMarkCompleted(i) ==
  /\ paymentIntents[i] = "succeeded"
  /\ webhook[i].pc = "idle"
  /\ webhook[i].delivered < MaxDeliveries
  /\ webhook' = [webhook EXCEPT ![i].delivered = @ + 1, ![i].pc = "counts"]
  /\ ticketPurchase' = MarkCompleted(ticketPurchase, i)
  /\ UNCHANGED <<event, paymentIntents, voice, web, dispatchVars, otherVars>>

\* Second await of handlePaymentSuccess: the unconditional increment by
\* parseInt(metadata.quantity).
WebhookIncrement(i) ==
  /\ webhook[i].pc = "counts"
  /\ event' = IncrementSold(event, Metadata(i).ticketType, Metadata(i).quantity)
  /\ webhook' = [webhook EXCEPT ![i].pc = "idle"]
  /\ UNCHANGED <<ticketPurchase, paymentIntents, voice, web, dispatchVars, otherVars>>

\* Stripe delivers webhook events at least once: the payment_intent.succeeded
\* event of an intent, delivered before, arrives again and POST /webhook runs
\* handlePaymentSuccess for it again. First await: the status update.
WebhookRedelivery(i) ==
  /\ paymentIntents[i] = "succeeded"
  /\ webhook[i].pc = "idle"
  /\ webhook[i].delivered > 0
  /\ webhook[i].delivered < MaxDeliveries + MaxRedeliveries
  /\ webhook' = [webhook EXCEPT ![i].delivered = @ + 1, ![i].pc = "counts"]
  /\ ticketPurchase' = MarkCompleted(ticketPurchase, i)
  /\ UNCHANGED <<event, paymentIntents, voice, web, dispatchVars, otherVars>>

\* ----------------------------------------------------- handlePaymentFailed
\* A payment attempt of the customer is declined: the intent stays at
\* requires_payment_method and Stripe emits payment_intent.payment_failed.
PaymentAttemptFails(i) ==
  /\ paymentIntents[i] = "requires_payment_method"
  /\ ~webhook[i].attemptFailed
  /\ webhook' = [webhook EXCEPT ![i].attemptFailed = TRUE]
  /\ UNCHANGED <<event, ticketPurchase, paymentIntents, voice, web,
                 dispatchVars, otherVars>>

\* prisma.ticketPurchase.updateMany({ where: { stripePaymentId }, data:
\* { paymentStatus: 'failed' } })
MarkFailed(table, i) ==
  {IF r.stripePaymentId = i THEN [r EXCEPT !.paymentStatus = "failed"] ELSE r
     : r \in table}

\* POST /webhook, case 'payment_intent.payment_failed': handlePaymentFailed.
\* Stripe does not deliver events in the order it emitted them: the event of
\* a declined attempt may arrive after the succeeded event of a later one.
WebhookFailed(i) ==
  /\ webhook[i].attemptFailed
  /\ ticketPurchase' = MarkFailed(ticketPurchase, i)
  /\ UNCHANGED <<event, paymentIntents, voice, web, webhook, dispatchVars, otherVars>>

\* ------------------------------------------- availability and admin edits
\* gaAvailable: event.gaCapacity - event.gaSold, vipAvailable likewise, in
\* getTicketPrices and in getEventInfo
Available(ev, t) == CapacityOf(ev, t) - SoldOf(ev, t)

\* POST /admin/events/:id: prisma.event.update with gaCapacity and vipCapacity
\* as posted (parseInt of the form fields), the date and the active flag as
\* posted; the sold counters are not read.
AdminUpdateEvent(gaCap, vipCap, active, past) ==
  /\ event' = [event EXCEPT !.gaCapacity = gaCap, !.vipCapacity = vipCap,
                            !.active = active, !.past = past]
  /\ UNCHANGED <<ticketPurchase, paymentIntents, voice, web, webhook,
                 dispatchVars, otherVars>>

\* ------------------------------------------------------ tools.getEventInfo
EventRows == 1..NumEvents
\* Dates are days; Now is new Date() at the call: 1 is past, 2 is now, 3 later.
Now == 2
Dates == 1..3
\* take: 3
MaxListed == 3

\* A row: its date, its active flag, and whether its name contains the
\* eventName some caller asks for.
EventRow(date, active, named) == [date |-> date, active |-> active, named |-> named]
EventTables == [EventRows -> {EventRow(d, a, n) : d \in Dates, a, n \in BOOLEAN}]

\* A filter that forgets the date.
QualifiesAnyDate(row, byName) == row.active /\ (byName => row.named)

\* where: { active: true, date: { gte: new Date() },
\*          ...(args?.eventName ? { name: { contains: args.eventName } } : {}) }
Qualifies(row, byName) ==
  row.active /\ row.date >= Now /\ (byName => row.named)

\* Whether findMany can return the rows r for orderBy: { date: 'asc' },
\* take: 3: the first rows of an ascending order of the qualifying rows. Rows
\* of equal date come in an order the database chooses.
FindMany(table, byName, r) ==
  LET Q == {e \in EventRows : Qualifies(table[e], byName)}
      n == IF Cardinality(Q) < MaxListed THEN Cardinality(Q) ELSE MaxListed
  IN /\ Len(r) = n
     /\ \A i \in 1..n : r[i] \in Q
     /\ \A i, j \in 1..n : i < j => (r[i] # r[j] /\ table[r[i]].date <= table[r[j]].date)
     /\ \A e \in Q : (\A i \in 1..n : r[i] # e)
                         => \A i \in 1..n : table[r[i]].date <= table[e].date

\* if (events.length === 0) return { ok: false, message: 'No upcoming events found' };
\* return { ok: true, events: eventList, nextEvent: eventList[0] }
GetEventInfoResult(table, found) ==
  IF found = <<>>
    THEN [ok |-> FALSE, message |-> "No upcoming events found"]
    ELSE [ok |-> TRUE, events |-> [i \in DOMAIN found |-> table[found[i]]],
          nextEvent |-> table[found[1]]]

NoLookup == [seeded |-> FALSE, called |-> FALSE, byName |-> FALSE,
             result |-> NoResult]

\* One row, active and in the future.
LookupInit ==
  /\ events = [e \in EventRows |-> EventRow(3, e = 1, FALSE)]
  /\ lookup = NoLookup

\* The event table as the administrator left it.
SetEvents ==
  /\ ~lookup.seeded /\ ~lookup.called
  /\ events' \in EventTables
  /\ lookup' = [lookup EXCEPT !.seeded = TRUE]
  /\ UNCHANGED <<purchaseVars, dispatchVars, knowledgeVars, clientVars,
                 telephonyVars>>

\* getEventInfo(args): logIntent (which swallows its errors), findMany, and
\* the result.
GetEventInfo(byName, found) ==
  /\ ~lookup.called
  /\ FindMany(events, byName, found)
  /\ lookup' = [lookup EXCEPT !.called = TRUE, !.byName = byName,
                              !.result = GetEventInfoResult(events, found)]
  /\ UNCHANGED <<events, purchaseVars, dispatchVars, knowledgeVars, clientVars,
                 telephonyVars>>

\* ------------------------------------------------- tool dispatch (registry)
\* A field an event does not carry (JavaScript undefined).
Undefined == "<undefined>"
\* JavaScript truthiness of a string-or-undefined value
Truthy(x) == x \notin {Undefined, ""}

\* The own keys of the `tools` object.
OwnTools ==
  {"getPolicy", "setLanguage", "getEventInfo", "getTicketPricing",
   "purchaseTickets", "getSponsorshipInfo", "captureSponsorInquiry",
   "getPastWinners", "getChefInfo", "getAboutInfo", "transferToHuman",
   "bookAppointment", "takeMessage", "answerQuestion", "sendTextMessage"}

\* The names of the entries of toolSpecs, the manifest sent to the model.
ManifestNames ==
  {"getEventInfo", "getTicketPricing", "purchaseTickets", "getSponsorshipInfo",
   "captureSponsorInquiry", "getPastWinners", "getChefInfo", "getAboutInfo",
   "transferToHuman", "bookAppointment", "takeMessage", "answerQuestion",
   "sendTextMessage"}

\* `tools` is an object literal: `(tools as any)[name]` also finds the properties
\* it inherits from Object.prototype.
ObjectPrototypeKeys ==
  {"constructor", "toString", "toLocaleString", "valueOf", "hasOwnProperty",
   "isPrototypeOf", "propertyIsEnumerable", "__proto__", "__defineGetter__",
   "__defineSetter__", "__lookupGetter__", "__lookupSetter__"}

\* const tool = (tools as any)[name]; if (!tool) ...
LookupTool(name) ==
  IF name \in OwnTools THEN "own"
  ELSE IF name \in ObjectPrototypeKeys THEN "inherited"
  ELSE "absent"

\* JavaScript values an event's `arguments` field, or the parsed arguments,
\* can hold.
JsUndefined == [t |-> "undefined"]
JsNull == [t |-> "null"]
JsNumber(n) == [t |-> "number", n |-> n]
JsString(text) == [t |-> "string", text |-> text]
JsObject(keys) == [t |-> "object", keys |-> keys]

\* JSON.parse on the texts of the model: an object, the empty object, null,
\* a number; anything else is a SyntaxError.
JsonTexts == {"{\"question\":\"q\"}", "{}", "null", "42"}
JsonParse(text) ==
  CASE text = "{\"question\":\"q\"}" -> JsObject({"question"})
    [] text = "{}" -> JsObject({})
    [] text = "null" -> JsNull
    [] text = "42" -> JsNumber(42)

\* function safeParseJson(s) { if (!s) return {}; try { return JSON.parse(s); }
\* catch { return {}; } }
safeParseJson(text) ==
  IF text = "" THEN JsObject({})
  ELSE IF text \in JsonTexts THEN JsonParse(text)
  ELSE JsObject({})

\* const args = typeof call.arguments === 'string'
\*   ? safeParseJson(call.arguments) : (call.arguments || {})
ExtractArguments(a) ==
  IF a.t = "string" THEN safeParseJson(a.text)
  ELSE IF a.t \in {"undefined", "null"} THEN JsObject({})
  ELSE a

Returns(v) == [kind |-> "returns", value |-> v, message |-> ""]
Throws(msg) == [kind |-> "throws", value |-> NoResult, message |-> msg]
\* a rejection whose reason is null or undefined (no .message to read)
ThrowsNull == [kind |-> "throws_null", value |-> NoResult, message |-> ""]

\* What `await tool(args)` can do, per modelled name. answerQuestion awaits the
\* knowledge base and the database (either may throw); takeMessage only awaits
\* logIntent, which swallows its errors. Object.prototype.toString called
\* without a receiver returns "[object Undefined]"; Object.prototype itself
\* (under "__proto__") is not callable. A name that is looked up and not found
\* calls nothing (the one behaviour of OTHER is never applied); the other
\* registered tools return a value.
ToolBehaviours(name) ==
  CASE name = "answerQuestion" ->
         {Returns([ok |-> TRUE, confidenceOk |-> TRUE]),
          Returns([ok |-> FALSE, lowConfidence |-> TRUE, action |-> "CLARIFY"]),
          Throws("kb unavailable"),
          ThrowsNull}
    [] name = "takeMessage" -> {Returns([ok |-> TRUE, ticketId |-> "MSG-1"])}
    [] name = "toString" -> {Returns([string |-> "[object Undefined]"])}
    [] name = "__proto__" -> {Throws("tool is not a function")}
    [] OTHER -> {Returns(NoResult)}

\* What tool(args) can do on the arguments it is handed: answerQuestion reads
\* args.question before its first await, which throws a TypeError on null.
BehavioursOn(name, args) ==
  IF name = "answerQuestion" /\ args.t = "null"
    THEN {Throws("Cannot read properties of null (reading 'question')")}
    ELSE ToolBehaviours(name)

AllBehaviours ==
  UNION {BehavioursOn(n, a) : n \in {"answerQuestion", "takeMessage"},
                              a \in {JsNull, JsObject({})}}

Resolved(v) == [kind |-> "resolved", value |-> v, message |-> ""]
Rejected(msg) == [kind |-> "rejected", value |-> NoResult, message |-> msg]

\* handleToolCall(name, args): how the promise it returns settles when the
\* looked-up function behaves as `b`.
HandleToolCall(name, b) ==
  IF LookupTool(name) = "absent"
    THEN Resolved([error |-> "Unknown tool: " \o name])
    ELSE CASE b.kind = "returns" -> Resolved(b.value)
           [] b.kind = "throws" ->
                Resolved([error |-> IF b.message # "" THEN b.message
                                    ELSE "Tool execution failed"])
           [] b.kind = "throws_null" ->
                Rejected("Cannot read properties of null (reading 'message')")

\* ------------------------------------- OpenAIRealtimeClient tool-call handling
\* const name = call.name || call.tool_name
ToolName(call) == IF Truthy(call.name) THEN call.name ELSE call.tool_name
\* const toolCallId = call.tool_call_id || call.id
ToolCallId(call) == IF Truthy(call.tool_call_id) THEN call.tool_call_id ELSE call.id

\* The onToolCall handler the media bridge installs: tool-call handling
\* "invokes the Tool Dispatch Layer" with the tool name and the arguments.
OnToolCall(call, b) == HandleToolCall(ToolName(call), b)

\* try { output = await this.handlers.onToolCall(...) }
\* catch (e) { output = { ok: false, error: e?.message || String(e) } }
ClientOutput(settled) ==
  IF settled.kind = "resolved" THEN settled.value
  ELSE [ok |-> FALSE, error |-> settled.message]

NoEvent == [name |-> Undefined, tool_name |-> Undefined,
            id |-> Undefined, tool_call_id |-> Undefined,
            arguments |-> JsUndefined]
NoCall == [pc |-> "none", evt |-> NoEvent, toolCallId |-> Undefined,
           args |-> JsUndefined,
           settled |-> Resolved(NoResult), ran |-> FALSE, threw |-> FALSE,
           waited |-> 0]

DispatchInit ==
  /\ wsOpen = TRUE
  /\ calls = [k \in CallIds |-> NoCall]
  /\ outbox = <<>>

\* private send(obj): dropped unless the socket is OPEN
Send(box, open, msg) == IF open THEN Append(box, msg) ELSE box

\* The rest of the client's handleToolCall once onToolCall has settled:
\* this.send({ type: 'tool.output', tool_call_id, output: JSON.stringify(output) }).
\* `call` (the invocation the message belongs to) is not part of the message.
ToolOutput(c, k) ==
  [type |-> "tool.output", tool_call_id |-> c.toolCallId,
   output |-> ClientOutput(c.settled), call |-> k]

\* Invocation c once onToolCall has settled, the looked-up function having
\* behaved as `b`; ran and threw record whether a function was called and
\* whether it threw.
Settle(c, b) ==
  [c EXCEPT !.pc = "finished",
            !.settled = OnToolCall(c.evt, b),
            !.ran = (LookupTool(ToolName(c.evt)) # "absent"),
            !.threw = (LookupTool(ToolName(c.evt)) # "absent" /\ b.kind # "returns")]

\* The tool-call events of the model: a registered tool that awaits external
\* services, one that does not, an unregistered name, and two names that
\* Object.prototype defines.
EventNames == {"answerQuestion", "takeMessage", "getWeather", "toString", "__proto__"}

\* Event k as the model sends it: the name under `name` or under `tool_name`,
\* the correlation token under `id`, under `tool_call_id`, or both.
Events(k) ==
  {[name |-> IF f THEN n ELSE Undefined,
    tool_name |-> IF f THEN Undefined ELSE n,
    id |-> IF i \in {"id", "both"} THEN "item_" \o ToString(k) ELSE Undefined,
    tool_call_id |-> IF i \in {"tool_call_id", "both"} THEN "call_" \o ToString(k)
                     ELSE Undefined,
    arguments |-> JsString("{\"question\":\"q\"}")]
     : n \in EventNames, f \in BOOLEAN, i \in {"id", "tool_call_id", "both"}}

\* The shapes of the `arguments` field: absent, null, an object, a number, and
\* strings that are empty, valid JSON (an object, null, a number) or unparseable.
ArgumentValues ==
  {JsUndefined, JsNull, JsObject({"question"}), JsNumber(42)}
    \cup {JsString(x) : x \in JsonTexts \cup {"", "{bad json"}}

\* Event k with every shape of arguments.
ArgumentEvents(k) ==
  {[e EXCEPT !.arguments = a] : e \in Events(k), a \in ArgumentValues}

\* ws.on('message') -> routeEvent -> void this.handleToolCall(call): name and
\* toolCallId are computed and onToolCall is called. A registered tool runs
\* until its awaits return; any other name settles without waiting, so the
\* tool.output is sent before another event is handled.
ReceiveToolCall(k, evt) ==
  /\ wsOpen
  /\ calls[k].pc = "none"
  /\ \A j \in CallIds : j < k => calls[j].pc # "none"
  /\ LET c == [calls[k] EXCEPT !.pc = "running", !.evt = evt,
                               !.args = ExtractArguments(evt.arguments),
                               !.toolCallId = ToolCallId(evt)]
         name == ToolName(evt)
     IN IF LookupTool(name) = "own"
          THEN /\ calls' = [calls EXCEPT ![k] = c]
               /\ UNCHANGED outbox
          ELSE \E b \in ToolBehaviours(name) :
                 /\ calls' = [calls EXCEPT ![k] = Settle(c, b)]
                 /\ outbox' = Send(outbox, wsOpen, ToolOutput(Settle(c, b), k))
  /\ UNCHANGED <<wsOpen, purchaseVars, otherVars>>

\* A running tool returns or throws; handleToolCall settles and the client
\* sends the output (dropped when the socket is no longer open).
ToolSettles(k, b) ==
  /\ calls[k].pc = "running"
  /\ b \in BehavioursOn(ToolName(calls[k].evt), calls[k].args)
  /\ calls' = [calls EXCEPT ![k] = Settle(@, b)]
  /\ outbox' = Send(outbox, wsOpen, ToolOutput(Settle(calls[k], b), k))
  /\ UNCHANGED <<wsOpen, purchaseVars, otherVars>>

\* Time passes while a tool waits for an external service. Neither
\* handleToolCall nor the tools start a timer, so nothing else happens.
Tick(k) ==
  /\ calls[k].pc = "running"
  /\ calls[k].waited <= ToolTimeoutTicks
  /\ calls' = [calls EXCEPT ![k].waited = @ + 1]
  /\ UNCHANGED <<wsOpen, outbox, purchaseVars, otherVars>>

\* ws.on('close') or close(): the socket leaves the OPEN state.
SocketClose ==
  /\ wsOpen
  /\ wsOpen' = FALSE
  /\ UNCHANGED <<calls, outbox, purchaseVars, otherVars>>

\* ------------------------------------- tools.answerQuestion, tools.getPolicy
\* Scores and thresholds are in hundredths (0.55 is 55).
DefaultMinConfidence == 55
DefaultLowConfidenceAction == "ask_clarify"

\* prisma.businessConfig.findFirst(): the row, or null when there is none.
NoConfig == [exists |-> FALSE, kbMinConfidence |-> 0, lowConfidenceAction |-> ""]
ConfigRow(min, action) ==
  [exists |-> TRUE, kbMinConfidence |-> min, lowConfidenceAction |-> action]
Configs ==
  {NoConfig} \cup {ConfigRow(min, a) : min \in {0, 55, 91},
                                       a \in {"ask_clarify", "transfer", "voicemail"}}

\* getPolicy: { kbMinConfidence: cfg?.kbMinConfidence ?? 0.55,
\*              lowConfidenceAction: cfg?.lowConfidenceAction ?? 'ask_clarify' }
GetPolicyResult(cfg) ==
  [kbMinConfidence |-> IF cfg.exists THEN cfg.kbMinConfidence ELSE 55,
   lowConfidenceAction |-> IF cfg.exists THEN cfg.lowConfidenceAction
                           ELSE "ask_clarify"]

\* An answerQuestion that falls back to another threshold than getPolicy does.
MinConfidenceOther(cfg) == IF cfg.exists THEN cfg.kbMinConfidence ELSE 50

\* answerQuestion: const minConfidence = cfg?.kbMinConfidence ?? 0.55
MinConfidence(cfg) ==
  IF cfg.exists THEN cfg.kbMinConfidence ELSE DefaultMinConfidence
\* answerQuestion: const lowConfidenceAction = cfg?.lowConfidenceAction ?? 'ask_clarify'
LowConfidenceAction(cfg) ==
  IF cfg.exists THEN cfg.lowConfidenceAction ELSE DefaultLowConfidenceAction

\* (args.language || 'en').substring(0, 5).toLowerCase(), on the language
\* arguments of the model
Languages == {Undefined, "es", "EN-US", "pt-BR-x-lvariant"}
ResolveLanguage(language) ==
  CASE language = Undefined -> "en"
    [] language = "es" -> "es"
    [] language = "EN-US" -> "en-us"
    [] language = "pt-BR-x-lvariant" -> "pt-br"

\* What askKB resolves to: the ranked candidates with their scores, and the
\* context text built from them.
Source(id, score) == [id |-> id, score |-> score]
KbAnswer(sources) ==
  [context |-> IF sources = <<>> THEN "" ELSE "passage of " \o sources[1].id,
   sources |-> sources]
KbAnswers ==
  {KbAnswer(ss) : ss \in {<<>>,
                          <<Source("faq-1", 10)>>,
                          <<Source("faq-2", 54), Source("faq-1", 10)>>,
                          <<Source("faq-3", 55)>>,
                          <<Source("faq-4", 91), Source("faq-2", 54)>>}}
Questions == {"when is the next event", "what's the weather"}

\* const topConfidence = res.sources[0]?.score ?? 0
TopConfidence(res) == IF Len(res.sources) = 0 THEN 0 ELSE res.sources[1].score

\* A gate that lets a score just below the threshold through.
IsLowConfidenceLax(top, min) == top + 1 < min

\* if (topConfidence < minConfidence)
IsLowConfidence(top, min) == top < min

\* the three gated returns of answerQuestion
GatedResult(action, res) ==
  CASE action = "transfer" ->
         [ok |-> FALSE, lowConfidence |-> TRUE, action |-> "TRANSFER"]
    [] action = "voicemail" ->
         [ok |-> FALSE, lowConfidence |-> TRUE, action |-> "VOICEMAIL"]
    [] OTHER ->
         [ok |-> FALSE, lowConfidence |-> TRUE, action |-> "CLARIFY",
          partialContext |-> res.context, sources |-> res.sources]

\* return { ...res, ok: true, confidenceOk: true, topConfidence }
ApprovedResult(res, top) ==
  [context |-> res.context, sources |-> res.sources,
   ok |-> TRUE, confidenceOk |-> TRUE, topConfidence |-> top]

NoAnswer == KbAnswer(<<>>)
NoPolicy == [read |-> FALSE, cfg |-> NoConfig,
             value |-> [kbMinConfidence |-> 0, lowConfidenceAction |-> ""]]

KnowledgeInit ==
  /\ businessConfig = ConfigRow(55, "ask_clarify")
  /\ aq = [pc |-> "idle", n |-> 0, question |-> "", lang |-> "en",
           res |-> NoAnswer, cfg |-> NoConfig, minConfidence |-> 0,
           lowConfidenceAction |-> "", result |-> NoResult]
  /\ citationsLog = <<>>
  /\ policy = NoPolicy

\* The businessConfig row is edited, or removed, outside the assistant.
SetConfig(cfg) ==
  /\ businessConfig # cfg
  /\ businessConfig' = cfg
  /\ UNCHANGED <<aq, citationsLog, policy, purchaseVars, dispatchVars, clientVars,
                 lookupVars, telephonyVars>>

\* tools.getPolicy
GetPolicy ==
  /\ policy' = [read |-> TRUE, cfg |-> businessConfig,
                value |-> GetPolicyResult(businessConfig)]
  /\ policy' # policy
  /\ UNCHANGED <<businessConfig, aq, citationsLog, purchaseVars, dispatchVars, clientVars,
                 lookupVars, telephonyVars>>

\* answerQuestion is called: logIntent (errors swallowed), the language is
\* resolved, askKB is started.
AnswerQuestion(question, language) ==
  /\ aq.pc \in {"idle", "done"}
  /\ aq.n < MaxQuestions
  /\ aq' = [pc |-> "kb", n |-> aq.n + 1, question |-> question,
            lang |-> ResolveLanguage(language), res |-> NoAnswer,
            cfg |-> NoConfig, minConfidence |-> 0, lowConfidenceAction |-> "",
            result |-> NoResult]
  /\ UNCHANGED <<businessConfig, citationsLog, policy, purchaseVars, dispatchVars, clientVars,
                 lookupVars, telephonyVars>>

\* const res = await askKB(args.question, lang): it resolves, or it throws and
\* handleToolCall's catch returns { error }.
AskKB(res, ok) ==
  /\ aq.pc = "kb"
  /\ aq' = IF ok THEN [aq EXCEPT !.res = res, !.pc = "config"]
           ELSE [aq EXCEPT !.result = [error |-> "kb unavailable"], !.pc = "done"]
  /\ UNCHANGED <<businessConfig, citationsLog, policy, purchaseVars, dispatchVars, clientVars,
                 lookupVars, telephonyVars>>

\* const cfg = await prisma.businessConfig.findFirst(); the two policy values
ReadConfig ==
  /\ aq.pc = "config"
  /\ aq' = [aq EXCEPT !.cfg = businessConfig,
                      !.minConfidence = MinConfidence(businessConfig),
                      !.lowConfidenceAction = LowConfidenceAction(businessConfig),
                      !.pc = "citation"]
  /\ UNCHANGED <<businessConfig, citationsLog, policy, purchaseVars, dispatchVars, clientVars,
                 lookupVars, telephonyVars>>

\* try { ...; await prisma.citationsLog.create({ data: { question, language,
\* sources: JSON.stringify(res.sources || []) } }) } catch {}
LogCitation(dbOk) ==
  /\ aq.pc = "citation"
  /\ citationsLog' =
       IF dbOk THEN Append(citationsLog,
                           [question |-> aq.question, language |-> aq.lang,
                            sources |-> aq.res.sources, invocation |-> aq.n])
       ELSE citationsLog
  /\ aq' = [aq EXCEPT !.pc = "gate"]
  /\ UNCHANGED <<businessConfig, policy, purchaseVars, dispatchVars, clientVars,
                 lookupVars, telephonyVars>>

\* The confidence check and the return (the logIntent of the gated branch
\* swallows its errors).
Gate ==
  /\ aq.pc = "gate"
  /\ aq' = [aq EXCEPT
       !.result = IF IsLowConfidence(TopConfidence(aq.res), aq.minConfidence)
                    THEN GatedResult(aq.lowConfidenceAction, aq.res)
                    ELSE ApprovedResult(aq.res, TopConfidence(aq.res)),
       !.pc = "done"]
  /\ UNCHANGED <<businessConfig, citationsLog, policy, purchaseVars, dispatchVars, clientVars,
                 lookupVars, telephonyVars>>

\* ------------------------------------- OpenAIRealtimeClient: the session
SocketIds == 1..MaxSockets
\* maybeAutoFlush(thresholdBytes = 32000)
AutoFlushThreshold == 32000
\* Buffer.byteLength(b64, 'base64') of the audio frames of the model
FrameBytes == {8000, 12000}

Message(type, session, to) == [type |-> type, session |-> session, to |-> to]

\* private send(obj): written to this.ws when its readyState is OPEN, dropped
\* otherwise. `socks` is the readyState of the sockets when send is called.
SentBy(c, socks, msgs) ==
  IF c.ws # 0 /\ socks[c.ws] = "open"
    THEN [i \in DOMAIN msgs |-> Message(msgs[i][1], msgs[i][2], c.ws)]
    ELSE <<>>

\* An inbound message: how its text parses, and for an object its type and
\* whether it carries a non-empty `delta`.
InboundMessage(json, type, delta) == [json |-> json, type |-> type, delta |-> delta]
NoMessage == InboundMessage("none", Undefined, FALSE)

Step(op, sent, reported) ==
  [op |-> op, sent |-> sent, reported |-> reported, msg |-> NoMessage]

\* What a socket has been sent so far: `first` is the first message written to
\* it, `configs` the number of session.update configurations (2 for more).
Kind(m) == IF m.type = "session.update" THEN m.session ELSE m.type
Record(h, sent) ==
  IF sent = <<>> THEN h
  ELSE LET to == sent[1].to
           n == Cardinality({i \in DOMAIN sent : Kind(sent[i]) = "config"})
       IN [h EXCEPT !.first[to] = IF @ = "" THEN Kind(sent[1]) ELSE @,
                    !.configs[to] = IF @ + n > 2 THEN 2 ELSE @ + n]

ToolIds == 1..MaxToolCalls
NoInvocation == [state |-> "none", from |-> 0]

\* After construction: no socket, connected = false, pendingBytes = 0, no timer.
\* hist: ownerHolds - the owner has connected and neither closed nor been told
\* of a close; closes - close() calls since the last connect() (0, 1, 2 for
\* more); faulted -
\* the current socket closed without close(); turnBytes - bytes appended since
\* the last turn boundary; flushTurnBytes - turnBytes when the last proactive
\* commit fired; closeSent - the sockets whose closing handshake close()
\* started and the peer has not answered; opened - the sockets whose open
\* event has happened; dropped -
\* a malformed message has arrived; resolvedFrom - the socket on which the
\* tool call arrived whose invocation resolved last; connectWaited - clock
\* ticks since connect() while the socket is connecting; failures - closes of
\* the session's socket without close() since the last open event; call,
\* redirected - the state of the call (InProgress stands for Ringing and
\* Connected) and whether the telephony leg was told to redirect.
ClientInit ==
  /\ client = [ws |-> 0, connected |-> FALSE, pendingBytes |-> 0,
               heartbeatTimer |-> FALSE]
  /\ sockets = [s \in SocketIds |-> "none"]
  /\ step = Step("new", <<>>, {})
  /\ hist = [ownerHolds |-> FALSE, closes |-> 0, faulted |-> FALSE,
             turnBytes |-> 0, flushTurnBytes |-> 0, closeSent |-> {},
             opened |-> {}, dropped |-> FALSE, resolvedFrom |-> 0,
             connectWaited |-> 0, failures |-> 0,
             call |-> "InProgress", redirected |-> FALSE,
             first |-> [s \in SocketIds |-> ""],
             configs |-> [s \in SocketIds |-> 0]]
  /\ inflight = [k \in ToolIds |-> NoInvocation]

\* connect(): this.ws = new WebSocket(url, ...) and the four listeners. The
\* owner connects when it holds no session.
Connect ==
  /\ ~hist.ownerHolds
  /\ client.ws < MaxSockets
  /\ client' = [client EXCEPT !.ws = @ + 1]
  /\ sockets' = [sockets EXCEPT ![client.ws + 1] = "connecting"]
  /\ step' = Step("connect", <<>>, {})
  /\ hist' = [hist EXCEPT !.ownerHolds = TRUE, !.closes = 0, !.faulted = FALSE,
                          !.connectWaited = 0]
  /\ UNCHANGED <<inflight, purchaseVars, dispatchVars, knowledgeVars,
                 lookupVars, telephonyVars>>

\* connect() called while the owner still holds a session (a reconnect
\* without close()): this.ws is overwritten, the socket it held is neither
\* closed nor are its listeners removed, and connected is not touched.
ConnectOver ==
  /\ hist.ownerHolds
  /\ client.ws < MaxSockets
  /\ client' = [client EXCEPT !.ws = @ + 1]
  /\ sockets' = [sockets EXCEPT ![client.ws + 1] = "connecting"]
  /\ step' = Step("connect", <<>>, {})
  /\ hist' = [hist EXCEPT !.closes = 0, !.faulted = FALSE, !.connectWaited = 0]
  /\ UNCHANGED <<inflight, purchaseVars, dispatchVars, knowledgeVars,
                 lookupVars, telephonyVars>>

\* A startHeartbeat that does not arm the timer.
StartHeartbeatNot(c) == c

\* startHeartbeat(): stopHeartbeat(), then setInterval
StartHeartbeat(c) == [c EXCEPT !.heartbeatTimer = TRUE]
\* stopHeartbeat(): clearInterval
StopHeartbeat(c) == [c EXCEPT !.heartbeatTimer = FALSE]

\* ws.on('open'): connected = true, the session.update configuration is sent,
\* the heartbeat is started, onOpen is called.
\* An open listener that sends no configuration.
OpenListenerSendsNothing(c, socks) == <<>>

\* this.send({ type: 'session.update', session: { ...formats, turn_detection,
\* voice, tools, instructions } }) of the open listener
OpenListenerSends(c, socks) ==
  SentBy(c, socks, <<<<"session.update", "config">>>>)

OpenEvent(s) ==
  /\ sockets[s] = "connecting"
  /\ sockets' = [sockets EXCEPT ![s] = "open"]
  /\ client' = StartHeartbeat([client EXCEPT !.connected = TRUE])
  /\ step' = Step("open", OpenListenerSends(client, sockets'), {"onOpen"})
  /\ hist' = Record([hist EXCEPT !.opened = @ \cup {s}, !.failures = 0], step'.sent)
  /\ UNCHANGED <<inflight, purchaseVars, dispatchVars, knowledgeVars,
                 lookupVars, telephonyVars>>

\* The server starts the closing handshake: readyState becomes CLOSING; no
\* listener of the client runs until the close event.
PeerClose(s) ==
  /\ sockets[s] = "open"
  /\ sockets' = [sockets EXCEPT ![s] = "closing"]
  /\ step' = Step("peerClose", <<>>, {})
  /\ UNCHANGED <<client, hist, inflight, purchaseVars, dispatchVars, knowledgeVars,
                 lookupVars, telephonyVars>>

\* ws.on('error'): onError is called; nothing else. The socket is on its way
\* to closed.
ErrorEvent(s) ==
  /\ sockets[s] \in {"connecting", "open"}
  /\ sockets' = [sockets EXCEPT ![s] = "closing"]
  /\ step' = Step("error", <<>>, {"onError"})
  /\ UNCHANGED <<client, hist, inflight, purchaseVars, dispatchVars, knowledgeVars,
                 lookupVars, telephonyVars>>

\* A close handler that opens a new socket by itself.
OnCloseReconnect(c) ==
  IF c.ws < MaxSockets
    THEN [c EXCEPT !.connected = FALSE, !.heartbeatTimer = FALSE, !.ws = @ + 1]
    ELSE [c EXCEPT !.connected = FALSE, !.heartbeatTimer = FALSE]

\* ws.on('close'): connected = false; stopHeartbeat()
OnClose(c) == StopHeartbeat([c EXCEPT !.connected = FALSE])

\* The close event of socket s (handshake finished, or the connection lost):
\* the close listener runs and calls onClose.
CloseEvent(s) ==
  /\ sockets[s] \in {"open", "closing"}
  /\ client' = OnClose(client)
  /\ sockets' = [sockets EXCEPT ![s] = "closed"]
  /\ step' = Step("close", <<>>, {"onClose"})
  /\ hist' = IF s = client.ws
               THEN [hist EXCEPT !.ownerHolds = FALSE, !.faulted = (hist.closes = 0),
                                 !.failures = IF hist.closes = 0 /\ @ <= MaxReconnects
                                                THEN @ + 1 ELSE @,
                                 !.closeSent = @ \ {s}]
               ELSE [hist EXCEPT !.closeSent = @ \ {s}]
  /\ UNCHANGED <<inflight, purchaseVars, dispatchVars, knowledgeVars,
                 lookupVars, telephonyVars>>

\* A close() that leaves the keepalive timer running.
CloseClientKeepTimer(c) == [c EXCEPT !.connected = FALSE]

\* close(): try { stopHeartbeat(); this.ws?.close() } catch {}; connected = false
CloseClient(c) == StopHeartbeat([c EXCEPT !.connected = FALSE])

\* ws.close() of the library: a connecting socket aborts its handshake, an
\* open one starts the closing handshake, a closing or closed one is left.
WsClose(state) == IF state \in {"connecting", "open"} THEN "closing" ELSE state

Close ==
  /\ client' = CloseClient(client)
  /\ sockets' = [t \in SocketIds |->
                   IF t = client.ws THEN WsClose(sockets[t]) ELSE sockets[t]]
  /\ step' = Step("closeCall", <<>>, {})
  /\ hist' = [hist EXCEPT !.ownerHolds = FALSE,
                          !.closes = IF @ < 2 THEN @ + 1 ELSE @,
                          !.closeSent = IF client.ws # 0 /\ sockets[client.ws] = "open"
                                          THEN @ \cup {client.ws} ELSE @]
  /\ UNCHANGED <<inflight, purchaseVars, dispatchVars, knowledgeVars,
                 lookupVars, telephonyVars>>

\* A flush test that needs the threshold to be exceeded.
FlushDueAbove(pendingBytes) == pendingBytes > AutoFlushThreshold

\* maybeAutoFlush: if (this.pendingBytes >= thresholdBytes)
FlushDue(pendingBytes) == pendingBytes >= AutoFlushThreshold

\* appendAudioBase64(b64) followed by maybeAutoFlush(), as the media bridge
\* calls them for every frame of the telephony leg.
\* append: if (!connected) return; pendingBytes += bytes; send(append).
\* maybeAutoFlush -> commitAndRespond: if (!connected) return; send(commit);
\* send(response.create); pendingBytes = 0.
MediaFrame(bytes) ==
  /\ LET appended == client.pendingBytes + bytes
         flush == client.connected /\ FlushDue(appended)
     IN IF ~client.connected
          THEN /\ step' = Step("frame", <<>>, {})
               /\ UNCHANGED <<client, hist>>
          ELSE /\ client' = [client EXCEPT !.pendingBytes =
                               IF flush THEN 0 ELSE appended]
               /\ step' = Step("frame",
                    SentBy(client, sockets,
                           <<<<"input_audio_buffer.append", "">>>> \o
                           (IF flush THEN <<<<"input_audio_buffer.commit", "">>,
                                            <<"response.create", "">>>>
                            ELSE <<>>)), {})
               /\ hist' = Record([hist EXCEPT
                    !.turnBytes = IF flush THEN 0 ELSE @ + bytes,
                    !.flushTurnBytes = IF flush THEN hist.turnBytes + bytes ELSE @],
                    step'.sent)
  /\ UNCHANGED <<sockets, inflight, purchaseVars, dispatchVars, knowledgeVars,
                 lookupVars, telephonyVars>>

\* commitAndRespond() called by the owner (manual turn end)
CommitAndRespond ==
  /\ client.connected
  /\ client' = [client EXCEPT !.pendingBytes = 0]
  /\ step' = Step("commit",
                  SentBy(client, sockets, <<<<"input_audio_buffer.commit", "">>,
                                            <<"response.create", "">>>>), {})
  /\ hist' = Record([hist EXCEPT !.turnBytes = 0], step'.sent)
  /\ UNCHANGED <<sockets, inflight, purchaseVars, dispatchVars, knowledgeVars,
                 lookupVars, telephonyVars>>

\* The inbound messages of the model: the five kinds routeEvent tests for
\* (the deltas with and without a payload), the server's error event, a type
\* the client does not know, an object without type, JSON that is not an
\* object, and text that is not JSON.
AudioDelta == InboundMessage("object", "response.audio.delta", TRUE)
TextDelta == InboundMessage("object", "response.output_text.delta", TRUE)
Completed == InboundMessage("object", "response.completed", FALSE)
ToolCallTypes == {"response.function_call", "tool.call"}
ToolCalls == {InboundMessage("object", t, FALSE) : t \in ToolCallTypes}
ErrorMessage == InboundMessage("object", "error", FALSE)
Malformed ==
  {InboundMessage("invalid", Undefined, FALSE),
   InboundMessage("null", Undefined, FALSE),
   InboundMessage("number", Undefined, FALSE),
   InboundMessage("object", Undefined, FALSE),
   InboundMessage("object", "response.audio.delta", FALSE),
   InboundMessage("object", "response.output_text.delta", FALSE)}
InboundMessages ==
  {AudioDelta, TextDelta, Completed, ErrorMessage,
   InboundMessage("object", "session.created", FALSE)}
    \cup ToolCalls \cup Malformed

\* A routeEvent that holds back every event while a tool invocation runs.
RouteEventWhenIdle(msg) ==
  IF \E k \in ToolIds : inflight[k].state = "running" THEN {}
  ELSE CASE msg.type = "response.audio.delta" /\ msg.delta -> {"onAudioDelta"}
         [] msg.type = "response.output_text.delta" /\ msg.delta -> {"onTextDelta"}
         [] msg.type = "response.completed" -> {"onResponseCompleted"}
         [] msg.type \in ToolCallTypes -> {"onToolCall"}
         [] OTHER -> {}

\* A routeEvent that tests the type only.
RouteEventAnyShape(msg) ==
  CASE msg.type = "response.audio.delta" -> {"onAudioDelta"}
    [] msg.type = "response.output_text.delta" -> {"onTextDelta"}
    [] msg.type = "response.completed" -> {"onResponseCompleted"}
    [] msg.type \in ToolCallTypes -> {"onToolCall"}
    [] OTHER -> {}

\* routeEvent(evt): the handler it calls. A tool-call event starts
\* handleToolCall, which calls onToolCall before its first await.
RouteEvent(msg) ==
  CASE msg.type = "response.audio.delta" /\ msg.delta -> {"onAudioDelta"}
    [] msg.type = "response.output_text.delta" /\ msg.delta -> {"onTextDelta"}
    [] msg.type = "response.completed" -> {"onResponseCompleted"}
    [] msg.type \in ToolCallTypes -> {"onToolCall"}
    [] OTHER -> {}

\* ws.on('message'): try { routeEvent(JSON.parse(data.toString())) } catch { log }.
\* Text that is not JSON throws in JSON.parse, JSON null throws in routeEvent
\* (evt.type of null); both are caught. A number has no type.
OnMessage(msg) == IF msg.json = "object" THEN RouteEvent(msg) ELSE {}

\* the invocation a new tool-call event starts
FreeToolId == CHOOSE k \in ToolIds :
                /\ inflight[k].state = "none"
                /\ \A j \in ToolIds : j < k => inflight[j].state # "none"

\* A message other than response.completed arrives on socket s and its
\* message listener runs.
Inbound(s, msg) ==
  /\ sockets[s] = "open"
  /\ msg # Completed
  /\ LET handlers == OnMessage(msg)
     IN /\ step' = [Step("message", <<>>, handlers) EXCEPT !.msg = msg]
        /\ hist' = [hist EXCEPT !.dropped = @ \/ msg \in Malformed]
        /\ IF "onToolCall" \in handlers
             THEN /\ \E k \in ToolIds : inflight[k].state = "none"
                  /\ inflight' = [inflight EXCEPT ![FreeToolId] =
                                    [state |-> "running", from |-> s]]
             ELSE UNCHANGED inflight
  /\ UNCHANGED <<client, sockets, purchaseVars, dispatchVars, knowledgeVars,
                 lookupVars, telephonyVars>>

\* A response.completed message on socket s: routeEvent calls
\* onResponseCompleted and returns; pendingBytes is not touched.
ResponseCompleted(s) ==
  /\ sockets[s] = "open"
  /\ step' = [Step("response.completed", <<>>, OnMessage(Completed))
                EXCEPT !.msg = Completed]
  /\ hist' = [hist EXCEPT !.turnBytes = 0]
  /\ UNCHANGED <<client, sockets, inflight, purchaseVars, dispatchVars, knowledgeVars,
                 lookupVars, telephonyVars>>

\* A message that the model sent before it saw the client's close frame
\* arrives on socket s after close(): the socket is CLOSING, close() removed
\* no listener, and the message listener runs as on an open socket.
InboundAfterClose(s, msg) ==
  /\ s \in hist.closeSent
  /\ sockets[s] = "closing"
  /\ LET handlers == OnMessage(msg)
     IN /\ step' = [Step("messageAfterClose", <<>>, handlers) EXCEPT !.msg = msg]
        /\ hist' = [hist EXCEPT !.dropped = @ \/ msg \in Malformed,
                                !.turnBytes = IF msg = Completed THEN 0 ELSE @]
        /\ IF "onToolCall" \in handlers
             THEN /\ \E k \in ToolIds : inflight[k].state = "none"
                  /\ inflight' = [inflight EXCEPT ![FreeToolId] =
                                    [state |-> "running", from |-> s]]
             ELSE UNCHANGED inflight
  /\ UNCHANGED <<client, sockets, purchaseVars, dispatchVars, knowledgeVars,
                 lookupVars, telephonyVars>>

\* The onToolCall promise of invocation k settles (resolved or rejected):
\* handleToolCall goes on to this.send({ type: 'tool.output', ... }), which
\* writes to whatever this.ws is now.
ToolResolves(k) ==
  /\ inflight[k].state = "running"
  /\ inflight' = [inflight EXCEPT ![k].state = "done"]
  /\ step' = Step("toolResolved", SentBy(client, sockets, <<<<"tool.output", "">>>>), {})
  /\ hist' = Record([hist EXCEPT !.resolvedFrom = inflight[k].from], step'.sent)
  /\ UNCHANGED <<client, sockets, purchaseVars, dispatchVars, knowledgeVars,
                 lookupVars, telephonyVars>>

\* The setInterval callback of startHeartbeat:
\* if (this.connected) this.send({ type: 'session.update', session: { keepalive_at } })
HeartbeatTick ==
  /\ client.heartbeatTimer
  /\ step' = Step("tick",
                  IF client.connected
                    THEN SentBy(client, sockets, <<<<"session.update", "keepalive">>>>)
                    ELSE <<>>, {})
  /\ hist' = Record(hist, step'.sent)
  /\ UNCHANGED <<client, sockets, inflight, purchaseVars, dispatchVars, knowledgeVars,
                 lookupVars, telephonyVars>>

\* Time passes while socket s is connecting. connect() passes no
\* handshakeTimeout and starts no timer, so nothing else happens.
ConnectWait(s) ==
  /\ sockets[s] = "connecting"
  /\ hist.connectWaited <= ConnectTimeoutTicks
  /\ hist' = [hist EXCEPT !.connectWaited = @ + 1]
  /\ step' = Step("wait", <<>>, {})
  /\ UNCHANGED <<client, sockets, inflight, purchaseVars, dispatchVars, knowledgeVars,
                 lookupVars, telephonyVars>>

\* ----------------------------- Call State Machine: faults of the model leg
\* A retry count that is used up one close too early.
RetriesExhaustedEarly(failures) == failures >= MaxReconnects

\* "a bounded reconnect attempt (small fixed retry count with backoff)"
RetriesExhausted(failures) == failures > MaxReconnects

\* The call starts: the bridge connects the model session.
StartCall ==
  /\ hist.call = "InProgress"
  /\ client.ws = 0
  /\ Connect

\* After an unexpected close reported by onClose, and the backoff, the bridge
\* connects again unless the retries are used up.
Reconnect ==
  /\ hist.call = "InProgress"
  /\ hist.faulted
  /\ ~RetriesExhausted(hist.failures)
  /\ Connect

\* "exhausting retries transitions the call to Transferred": the model
\* session is closed and the telephony leg is told to redirect to a human.
Transfer ==
  /\ hist.call = "InProgress"
  /\ hist.faulted
  /\ RetriesExhausted(hist.failures)
  /\ client' = CloseClient(client)
  /\ sockets' = [t \in SocketIds |->
                   IF t = client.ws THEN WsClose(sockets[t]) ELSE sockets[t]]
  /\ hist' = [hist EXCEPT !.call = "Transferred", !.redirected = TRUE,
                          !.closes = IF @ < 2 THEN @ + 1 ELSE @]
  /\ step' = Step("transfer", <<>>, {})
  /\ UNCHANGED <<inflight, purchaseVars, dispatchVars, knowledgeVars,
                 lookupVars, telephonyVars>>

\* -------------------------------------- voice routes: the voicemail callback
\* The recordings whose callback Twilio delivers (transcribeCallback:
\* '/voice/voicemail'), each with its RecordingUrl and CallSid.
Recordings == 1..NumRecordings

\* enqueueTranscription adds a job to the transcription queue, or rejects
\* when the queue cannot be reached.
EnqueueOutcomes == {"resolved", "rejected"}

VoicemailInit ==
  /\ vm = [r \in Recordings |-> "idle"]
  /\ jobs = {}

\* router.post('/voice/voicemail', ...): the request arrives and the handler
\* runs up to its await.
VoicemailCallback(r) ==
  /\ vm[r] = "idle"
  /\ vm' = [vm EXCEPT ![r] = "enqueue"]
  /\ UNCHANGED <<jobs, callLog, statusReq, clock, purchaseVars, dispatchVars,
                 knowledgeVars, clientVars, lookupVars>>

\* try { await enqueueTranscription({recordingUrl, callSid}) }
\* catch (err) { console.error(...) }
\* and then, whichever way the await ended: say 'Thank you! Your message has
\* been received...', hangup, send the TwiML.
EnqueueTranscription(r, outcome) ==
  /\ vm[r] = "enqueue"
  /\ jobs' = IF outcome = "resolved" THEN jobs \cup {r} ELSE jobs
  /\ vm' = [vm EXCEPT ![r] = "stored"]
  /\ UNCHANGED <<callLog, statusReq, clock, purchaseVars, dispatchVars,
                 knowledgeVars, clientVars, lookupVars>>

\* ----------------------------------------- voice routes: the status callback
CallSids == 1..NumSids
StatusReqs == 1..MaxCallbacks

\* CallStatus values Twilio reports
CallStatuses == {"ringing", "in-progress", "completed", "failed"}

\* A set of ended statuses that takes every status for an ended one.
EndedStatusesAll == CallStatuses

\* const endedStatuses = new Set(['completed', 'busy', 'no-answer',
\*                                'canceled', 'failed'])
EndedStatuses == {"completed", "busy", "no-answer", "canceled", "failed"}

\* endedAt DateTime?, outcome String?
NullOutcome == "null"
NoCallLog == [exists |-> FALSE, ended |-> FALSE, endedAt |-> 0,
              outcome |-> NullOutcome]

\* prisma.callLog.create({data: {callSid, fromNumber, toNumber}})
NewCallLog == [NoCallLog EXCEPT !.exists = TRUE]

\* data: { endedAt: new Date(), outcome: String(CallStatus) }
EndedCallLog(row, at, callStatus) ==
  [row EXCEPT !.ended = TRUE, !.endedAt = at, !.outcome = callStatus]

NoStatusReq == [pc |-> "idle", sid |-> 0, callStatus |-> NullOutcome,
                found |-> FALSE, wrote |-> FALSE, left |-> NoCallLog]

StatusInit ==
  /\ callLog = [c \in CallSids |-> NoCallLog]
  /\ statusReq = [q \in StatusReqs |-> NoStatusReq]
  /\ clock = 0

\* router.post('/voice/status', ...): the request arrives with its CallSid
\* and CallStatus; the handler starts findUnique.
StatusCallback(q, sid, callStatus) ==
  /\ statusReq[q].pc = "idle"
  /\ statusReq' = [statusReq EXCEPT ![q] = [NoStatusReq EXCEPT !.pc = "find",
                                        !.sid = sid, !.callStatus = callStatus]]
  /\ UNCHANGED <<vm, jobs, callLog, clock, purchaseVars, dispatchVars,
                 knowledgeVars, clientVars, lookupVars>>

\* Where the handler goes once the call log is there: the update for an ended
\* status, res.status(204).end() otherwise.
AfterUpsert(req, row) ==
  IF req.callStatus \in EndedStatuses
    THEN [req EXCEPT !.pc = "update"]
    ELSE [req EXCEPT !.pc = "done", !.left = row]

\* let call = await prisma.callLog.findUnique({where: {callSid}})
FindUnique(q) ==
  /\ statusReq[q].pc = "find"
  /\ LET row == callLog[statusReq[q].sid]
     IN statusReq' = [statusReq EXCEPT ![q] =
                     IF row.exists
                       THEN AfterUpsert([@ EXCEPT !.found = TRUE], row)
                       ELSE [@ EXCEPT !.pc = "create"]]
  /\ UNCHANGED <<vm, jobs, callLog, clock, purchaseVars, dispatchVars,
                 knowledgeVars, clientVars, lookupVars>>

\* if (!call) { try { call = await prisma.callLog.create(...) } catch ... }
\* callSid is @unique: the create of a CallSid that has a row by now throws,
\* and the throw is caught.
CreateCallLog(q) ==
  /\ statusReq[q].pc = "create"
  /\ LET sid == statusReq[q].sid
         row == IF callLog[sid].exists THEN callLog[sid] ELSE NewCallLog
     IN /\ callLog' = [callLog EXCEPT ![sid] = row]
        /\ statusReq' = [statusReq EXCEPT ![q] = AfterUpsert(@, row)]
  /\ UNCHANGED <<vm, jobs, clock, purchaseVars, dispatchVars,
                 knowledgeVars, clientVars, lookupVars>>

\* await prisma.callLog.update({where: {callSid}, data: {endedAt: new Date(),
\* outcome: String(CallStatus)}}).catch(() => {}); res.status(204).end()
UpdateCallLog(q) ==
  /\ statusReq[q].pc = "update"
  /\ LET sid == statusReq[q].sid
         row == IF callLog[sid].exists
                  THEN EndedCallLog(callLog[sid], clock, statusReq[q].callStatus)
                  ELSE callLog[sid]
     IN /\ callLog' = [callLog EXCEPT ![sid] = row]
        /\ statusReq' = [statusReq EXCEPT ![q] = [@ EXCEPT !.pc = "done",
                                              !.wrote = callLog[sid].exists,
                                              !.left = row]]
  /\ UNCHANGED <<vm, jobs, clock, purchaseVars, dispatchVars,
                 knowledgeVars, clientVars, lookupVars>>

\* Time passes.
ClockTick ==
  /\ clock < MaxClock
  /\ clock' = clock + 1
  /\ UNCHANGED <<vm, jobs, callLog, statusReq, purchaseVars, dispatchVars,
                 knowledgeVars, clientVars, lookupVars>>

TelephonyInit == VoicemailInit /\ StatusInit

\* ------------------------------------------------------------ specifications
Init ==
  /\ PurchaseInit /\ DispatchInit /\ KnowledgeInit /\ ClientInit /\ LookupInit
  /\ TelephonyInit

\* purchaseTickets invocations and their notifications
Next ==
  \/ \E p \in VoiceProcs, t \in Tiers, q \in Quantities,
        eid \in {EventId, MissingEventId, Unset} : Invoke(p, t, q, eid)
  \/ \E p \in VoiceProcs : FindEvent(p)
  \/ \E p \in VoiceProcs, o \in PayOutcomes : Pay(p, o)
  \/ \E p \in VoiceProcs, dbOk \in BOOLEAN : CreateRecord(p, dbOk)
  \/ \E p \in VoiceProcs, dbOk \in BOOLEAN : UpdateCounter(p, dbOk)
  \/ \E p \in VoiceProcs, dbOk \in BOOLEAN : Details(p, dbOk)
  \/ \E p \in VoiceProcs : ReturnPurchase(p)
  \/ \E p \in VoiceProcs, o \in NotifyOutcomes : SettleSms(p, o)
  \/ \E p \in VoiceProcs, o \in NotifyOutcomes : SettleSlack(p, o)

Spec == Init /\ [][Next]_vars

\* every writer of the inventory: voice purchases, payment-intent creations,
\* payment-succeeded webhooks
InventoryNext ==
  \/ \E p \in VoiceProcs, t \in Tiers, q \in Quantities,
        eid \in {EventId, MissingEventId, Unset} : Invoke(p, t, q, eid)
  \/ \E p \in VoiceProcs : FindEvent(p)
  \/ \E p \in VoiceProcs, o \in PayOutcomes : Pay(p, o)
  \/ \E p \in VoiceProcs, dbOk \in BOOLEAN : CreateRecord(p, dbOk)
  \/ \E p \in VoiceProcs, dbOk \in BOOLEAN : UpdateCounter(p, dbOk)
  \/ \E p \in VoiceProcs, dbOk \in BOOLEAN : Details(p, dbOk)
  \/ \E p \in VoiceProcs : ReturnPurchase(p)
  \/ \E w \in WebProcs, t \in Tiers, q \in Quantities : RequestIntent(w, t, q)
  \/ \E w \in WebProcs : CheckAvailability(w)
  \/ \E w \in WebProcs, ok \in BOOLEAN : CreateIntent(w, ok)
  \/ \E w \in WebProcs, ok \in BOOLEAN : CreatePending(w, ok)
  \/ \E i \in IntentIds : CustomerPays(i)
  \/ \E i \in IntentIds : WebhookMarkCompleted(i)
  \/ \E i \in IntentIds : WebhookIncrement(i)

SpecInventory == Init /\ [][InventoryNext]_vars

\* one model session: tool-call events, their tools, the clock, the socket
DispatchNext ==
  \/ \E k \in CallIds : \E evt \in Events(k) : ReceiveToolCall(k, evt)
  \/ \E k \in CallIds, b \in AllBehaviours : ToolSettles(k, b)
  \/ \E k \in CallIds : Tick(k)
  \/ SocketClose

SpecDispatch == Init /\ [][DispatchNext]_vars

\* one tool-call event with every shape of its arguments field
ArgumentsNext ==
  \/ \E evt \in ArgumentEvents(1) : ReceiveToolCall(1, evt)
  \/ \E b \in AllBehaviours : ToolSettles(1, b)
  \/ Tick(1)
  \/ SocketClose

SpecArguments == Init /\ [][ArgumentsNext]_vars

\* answerQuestion invocations, getPolicy, and edits of the configuration
KnowledgeNext ==
  \/ \E cfg \in Configs : SetConfig(cfg)
  \/ GetPolicy
  \/ \E q \in Questions, l \in Languages : AnswerQuestion(q, l)
  \/ \E res \in KbAnswers, ok \in BOOLEAN : AskKB(res, ok)
  \/ ReadConfig
  \/ \E dbOk \in BOOLEAN : LogCitation(dbOk)
  \/ Gate

SpecKnowledge == Init /\ [][KnowledgeNext]_vars

\* one client: its owner, its sockets, the media frames and the clock
ClientNext ==
  \/ Connect
  \/ \E s \in SocketIds : OpenEvent(s)
  \/ \E s \in SocketIds : PeerClose(s)
  \/ \E s \in SocketIds : ErrorEvent(s)
  \/ \E s \in SocketIds : CloseEvent(s)
  \/ Close
  \/ \E bytes \in FrameBytes : MediaFrame(bytes)
  \/ CommitAndRespond
  \/ \E s \in SocketIds : ResponseCompleted(s)
  \/ HeartbeatTick

SpecClient == Init /\ [][ClientNext]_vars

\* The ws library finishes what it started: a socket that is closing (after an
\* error, a close frame or close()) emits its close event.
SpecClientLive == SpecClient /\ \A s \in SocketIds : WF_vars(CloseEvent(s))

\* one purchaser at a time, and the administrator editing the capacities
AdminNext ==
  \/ \E t \in Tiers, q \in Quantities,
        eid \in {EventId, MissingEventId, Unset} : Invoke(1, t, q, eid)
  \/ FindEvent(1)
  \/ \E o \in PayOutcomes : Pay(1, o)
  \/ \E dbOk \in BOOLEAN : CreateRecord(1, dbOk)
  \/ \E dbOk \in BOOLEAN : UpdateCounter(1, dbOk)
  \/ \E dbOk \in BOOLEAN : Details(1, dbOk)
  \/ ReturnPurchase(1)
  \/ \E gaCap \in 0..GaCapacity, vipCap \in 0..VipCapacity,
        active, past \in BOOLEAN : AdminUpdateEvent(gaCap, vipCap, active, past)

SpecAdmin == Init /\ [][AdminNext]_vars

\* the two purchase paths of one event that the administrator edits
SalesNext ==
  \/ \E t \in Tiers, q \in Quantities,
        eid \in {EventId, MissingEventId, Unset} : Invoke(1, t, q, eid)
  \/ FindEvent(1)
  \/ \E o \in PayOutcomes : Pay(1, o)
  \/ \E dbOk \in BOOLEAN : CreateRecord(1, dbOk)
  \/ \E dbOk \in BOOLEAN : UpdateCounter(1, dbOk)
  \/ \E dbOk \in BOOLEAN : Details(1, dbOk)
  \/ ReturnPurchase(1)
  \/ \E w \in WebProcs, t \in Tiers, q \in Quantities : RequestIntent(w, t, q)
  \/ \E w \in WebProcs : CheckAvailability(w)
  \/ \E w \in WebProcs, ok \in BOOLEAN : CreateIntent(w, ok)
  \/ \E w \in WebProcs, ok \in BOOLEAN : CreatePending(w, ok)
  \/ \E gaCap \in {GaCapacity}, vipCap \in {VipCapacity}, active, past \in BOOLEAN :
        AdminUpdateEvent(gaCap, vipCap, active, past)

SpecSales == Init /\ [][SalesNext]_vars

\* getEventInfo on every event table of the model
AllFound == UNION {[1..n -> EventRows] : n \in 0..MaxListed}
LookupNext ==
  \/ SetEvents
  \/ \E byName \in BOOLEAN, found \in AllFound : GetEventInfo(byName, found)

SpecLookup == Init /\ [][LookupNext]_vars

\* one tool-call event for each name of the registry
RegistryEvents ==
  {[NoEvent EXCEPT !.name = n, !.id = "item_1",
                   !.arguments = JsString("{}")] : n \in OwnTools}
RegistryBehaviours == UNION {BehavioursOn(n, JsObject({})) : n \in OwnTools}
ManifestNext ==
  \/ \E evt \in RegistryEvents : ReceiveToolCall(1, evt)
  \/ \E b \in RegistryBehaviours : ToolSettles(1, b)
  \/ Tick(1)
  \/ SocketClose

SpecManifest == Init /\ [][ManifestNext]_vars

\* one client and the clock of its connect attempts
ConnectNext ==
  \/ Connect
  \/ \E s \in SocketIds : ConnectWait(s)
  \/ \E s \in SocketIds : OpenEvent(s)
  \/ \E s \in SocketIds : PeerClose(s)
  \/ \E s \in SocketIds : ErrorEvent(s)
  \/ \E s \in SocketIds : CloseEvent(s)
  \/ Close
  \/ \E bytes \in FrameBytes : MediaFrame(bytes)
  \/ HeartbeatTick

SpecConnect == Init /\ [][ConnectNext]_vars

\* one call: the bridge's reaction to faults of the model leg
CallNext ==
  \/ StartCall
  \/ Reconnect
  \/ Transfer
  \/ \E s \in SocketIds : OpenEvent(s)
  \/ \E s \in SocketIds : PeerClose(s)
  \/ \E s \in SocketIds : ErrorEvent(s)
  \/ \E s \in SocketIds : CloseEvent(s)
  \/ \E bytes \in FrameBytes : MediaFrame(bytes)
  \/ HeartbeatTick

\* The bridge acts on what it is told, and the ws library closes what is
\* closing.
SpecCall ==
  /\ Init /\ [][CallNext]_vars
  /\ WF_vars(Transfer)
  /\ \A s \in SocketIds : WF_vars(CloseEvent(s))

\* one client with everything the model sends it: the steps of ClientNext,
\* inbound messages of every kind, and tool invocations that resolve later
SessionNext ==
  \/ Connect
  \/ \E s \in SocketIds : OpenEvent(s)
  \/ \E s \in SocketIds : PeerClose(s)
  \/ \E s \in SocketIds : ErrorEvent(s)
  \/ \E s \in SocketIds : CloseEvent(s)
  \/ Close
  \/ \E bytes \in FrameBytes : MediaFrame(bytes)
  \/ CommitAndRespond
  \/ \E s \in SocketIds : ResponseCompleted(s)
  \/ HeartbeatTick
  \/ \E s \in SocketIds, msg \in InboundMessages : Inbound(s, msg)
  \/ \E k \in ToolIds : ToolResolves(k)

SpecSession == Init /\ [][SessionNext]_vars

\* the voicemail callbacks of the recordings
VoicemailNext ==
  \/ \E r \in Recordings : VoicemailCallback(r)
  \/ \E r \in Recordings, o \in EnqueueOutcomes : EnqueueTranscription(r, o)

SpecVoicemail == Init /\ [][VoicemailNext]_vars

\* the status callbacks, concurrent and in any order
StatusNext ==
  \/ \E q \in StatusReqs, sid \in CallSids, st \in CallStatuses :
        StatusCallback(q, sid, st)
  \/ \E q \in StatusReqs : FindUnique(q)
  \/ \E q \in StatusReqs : CreateCallLog(q)
  \/ \E q \in StatusReqs : UpdateCallLog(q)
  \/ ClockTick

SpecStatus == Init /\ [][StatusNext]_vars

\* the payment-intent path with its webhooks: deliveries, redeliveries, and
\* the events of declined attempts
WebhookNext ==
  \/ \E w \in WebProcs, t \in Tiers, q \in Quantities : RequestIntent(w, t, q)
  \/ \E w \in WebProcs : CheckAvailability(w)
  \/ \E w \in WebProcs, ok \in BOOLEAN : CreateIntent(w, ok)
  \/ \E w \in WebProcs, ok \in BOOLEAN : CreatePending(w, ok)
  \/ \E i \in IntentIds : PaymentAttemptFails(i)
  \/ \E i \in IntentIds : CustomerPays(i)
  \/ \E i \in IntentIds : WebhookMarkCompleted(i)
  \/ \E i \in IntentIds : WebhookIncrement(i)
  \/ \E i \in IntentIds : WebhookRedelivery(i)
  \/ \E i \in IntentIds : WebhookFailed(i)

SpecWebhook == Init /\ [][WebhookNext]_vars

\* one client whose owner connects and closes in any order
OwnershipNext ==
  \/ Connect
  \/ ConnectOver
  \/ \E s \in SocketIds : OpenEvent(s)
  \/ \E s \in SocketIds : PeerClose(s)
  \/ \E s \in SocketIds : ErrorEvent(s)
  \/ \E s \in SocketIds : CloseEvent(s)
  \/ Close
  \/ \E bytes \in FrameBytes : MediaFrame(bytes)
  \/ HeartbeatTick

SpecOwnership == Init /\ [][OwnershipNext]_vars

\* one client, the messages of the model, and close() at any moment
TeardownNext ==
  \/ Connect
  \/ \E s \in SocketIds : OpenEvent(s)
  \/ \E s \in SocketIds : PeerClose(s)
  \/ \E s \in SocketIds : ErrorEvent(s)
  \/ \E s \in SocketIds : CloseEvent(s)
  \/ Close
  \/ \E s \in SocketIds : ResponseCompleted(s)
  \/ \E s \in SocketIds, msg \in InboundMessages : Inbound(s, msg)
  \/ \E s \in SocketIds, msg \in InboundMessages : InboundAfterClose(s, msg)
  \/ \E k \in ToolIds : ToolResolves(k)

SpecTeardown == Init /\ [][TeardownNext]_vars

\* -------------------------------------------------------- purchase claims
IsOk(r) == "ok" \in DOMAIN r /\ r.ok = TRUE
IsFailure(r) == "ok" \in DOMAIN r /\ r.ok = FALSE /\ "error" \in DOMAIN r
Done(p) == voice[p].pc = "done"
RecordsOf(i) == {r \in ticketPurchase : r.stripePaymentId = i}

\* C1: for each tier the sold counter never exceeds the capacity, under every
\* interleaving of voice purchases, payment-intent creations and
\* payment-succeeded webhooks.
C1_SoldWithinCapacity ==
  \A t \in Tiers : SoldOf(event, t) <= CapacityOf(event, t)

\* Failures that have nothing to do with availability.
OtherFailures ==
  {"Event not found", "Your card number is incorrect.", "Your card was declined.",
   "Payment requires additional action", "database error"}
FailedOtherwise(p) ==
  "error" \in DOMAIN voice[p].result /\ voice[p].result.error \in OtherFailures

\* Invocation p asked for one unit of tier t and read that one unit remains.
WantsLastUnit(p, t) ==
  /\ voice[p].args.ticketType = t
  /\ voice[p].args.quantity = 1
  /\ voice[p].seenSold = CapacityOf(event, t) - 1

\* C2: of two concurrent purchaseTickets invocations that each ask for the one
\* remaining unit of a tier, exactly one returns ok:true with a confirmation
\* code and the other returns ok:false with "Only 0 <tier> tickets remaining";
\* both never succeed.
C2_LastUnitSoldOnce ==
  \A p, q \in VoiceProcs, t \in Tiers :
    ( /\ p # q
      /\ Done(p) /\ Done(q)
      /\ WantsLastUnit(p, t) /\ WantsLastUnit(q, t)
      /\ ~FailedOtherwise(p) /\ ~FailedOtherwise(q)
      /\ IsOk(voice[p].result) )
    => /\ "confirmationCode" \in DOMAIN voice[p].result
       /\ voice[q].result = [ok |-> FALSE, error |-> OnlyRemaining(0, t)]

\* The quantity invocation p asks for exceeds the availability it read.
ExceedsAvailability(p) ==
  /\ voice[p].seenSold # -1
  /\ voice[p].args.quantity >
       CapacityOf(event, voice[p].args.ticketType) - voice[p].seenSold

\* C3: a purchaseTickets invocation whose quantity exceeds the availability
\* executes no payment, creates no ticket-purchase record, leaves the sold
\* counter alone, and returns {ok:false, error}.
C3_OverAskRejectedUntouched ==
  \A p \in VoiceProcs :
    ExceedsAvailability(p)
    => /\ ~voice[p].charged
       /\ paymentIntents[p] = "none"
       /\ RecordsOf(p) = {}
       /\ ~voice[p].incremented
       /\ (Done(p) => IsFailure(voice[p].result))

\* C4: a purchase that returned a failure result left no completed
\* ticket-purchase record and did not change the sold counter, whatever stage
\* failed.
C4_FailureLeavesNoTrace ==
  \A p \in VoiceProcs :
    (Done(p) /\ IsFailure(voice[p].result))
    => /\ ~voice[p].incremented
       /\ \A r \in RecordsOf(p) : r.paymentStatus # "completed"

\* C5: a purchase whose read of the sold counter went stale before its write
\* re-reads and tries once more: no increment is applied on a read that
\* another purchase has overtaken.
C5_NoWriteOnStaleRead ==
  \A p \in VoiceProcs : voice[p].incremented => ~voice[p].staleWrite

Finished(k) == calls[k].pc = "finished"
\* the tool.output messages sent for tool-call event k
OutputsFor(k) == {n \in 1..Len(outbox) : outbox[n].call = k}

\* C7: for a tool name that is not a registered tool, handleToolCall resolves
\* to exactly {error: "Unknown tool: <name>"} without running any function,
\* and the session socket is still open after the call was handled.
C7_UnknownToolExactError ==
  \A k \in CallIds :
    (Finished(k) /\ ToolName(calls[k].evt) \notin OwnTools)
    => /\ calls[k].settled =
            Resolved([error |-> "Unknown tool: " \o ToolName(calls[k].evt)])
       /\ ~calls[k].ran
       /\ OutputsFor(k) # {}

\* C8: when a registered tool throws or rejects, the output sent to the model
\* has the shape {ok: false, error: <string>}, and the socket was not closed
\* by the fault.
C8_ThrowBecomesOkFalse ==
  \A n \in 1..Len(outbox) :
    (calls[outbox[n].call].threw /\ ToolName(calls[outbox[n].call].evt) \in OwnTools)
    => /\ DOMAIN outbox[n].output = {"ok", "error"}
       /\ outbox[n].output.ok = FALSE

\* The correlation tokens event k carries.
Tokens(k) == {calls[k].evt.id, calls[k].evt.tool_call_id} \ {Undefined}

\* C9: for every tool-call event received on a session that stays open the
\* client sends exactly one tool.output - never two, and never none once the
\* bounded time of a tool call has passed - tagged with a token of that event,
\* in whatever order the outstanding calls settle.
C9_ExactlyOneTaggedOutput ==
  /\ \A n \in 1..Len(outbox) : outbox[n].tool_call_id \in Tokens(outbox[n].call)
  /\ \A k \in CallIds :
       /\ Cardinality(OutputsFor(k)) <= 1
       /\ (wsOpen /\ Finished(k)) => Cardinality(OutputsFor(k)) = 1
       /\ (wsOpen /\ calls[k].waited > ToolTimeoutTicks)
            => Cardinality(OutputsFor(k)) = 1

\* C10: a tool invocation whose external call does not return is resolved to a
\* failure result once the bounded timeout has passed: no call is still
\* outstanding after more than ToolTimeoutTicks ticks.
C10_ResolvedWithinTimeout ==
  \A k \in CallIds : calls[k].waited > ToolTimeoutTicks => Finished(k)

\* C11: whatever the arguments field of a tool-call event is, extraction does
\* not throw and the dispatch layer is handed a key/value object - the empty
\* object when a string cannot be parsed.
C11_ArgumentsAlwaysObject ==
  \A k \in CallIds :
    calls[k].pc # "none"
    => /\ calls[k].args.t = "object"
       /\ (calls[k].evt.arguments = JsString("{bad json") => calls[k].args = JsObject({}))

\* ------------------------------------------------------- knowledge claims
\* answerQuestion returned a result of its own (not the dispatch layer's error).
Answered == aq.pc = "done" /\ "ok" \in DOMAIN aq.result
\* The best score among the candidates askKB returned; 0 when there are none.
BestScore ==
  IF aq.res.sources = <<>> THEN 0
  ELSE CHOOSE m \in {aq.res.sources[i].score : i \in DOMAIN aq.res.sources} :
         \A i \in DOMAIN aq.res.sources : aq.res.sources[i].score <= m

\* C12: a question whose top score is strictly below the threshold gets a gated
\* result: ok false, an action among CLARIFY, TRANSFER, VOICEMAIL, no
\* confidence-approved flag, and the passage not returned as the answer (only
\* as partialContext, and only with CLARIFY).
C12_BelowThresholdGated ==
  (Answered /\ BestScore < aq.minConfidence)
  => /\ aq.result.ok = FALSE
     /\ "action" \in DOMAIN aq.result
     /\ aq.result.action \in {"CLARIFY", "TRANSFER", "VOICEMAIL"}
     /\ "confidenceOk" \notin DOMAIN aq.result
     /\ "context" \notin DOMAIN aq.result
     /\ ("partialContext" \in DOMAIN aq.result => aq.result.action = "CLARIFY")

\* A question scored one hundredth below the threshold was gated.
C12_Witness ==
  /\ Answered
  /\ BestScore = 54 /\ aq.minConfidence = 55
  /\ aq.result.ok = FALSE

\* C13: a question whose top score is at or above the threshold (an empty
\* candidate list counting as 0) gets ok:true with the passage, the
\* confidence-approved flag and at least one source.
C13_AtThresholdApprovedWithSource ==
  (Answered /\ BestScore >= aq.minConfidence)
  => /\ aq.result.ok = TRUE
     /\ "confidenceOk" \in DOMAIN aq.result /\ aq.result.confidenceOk = TRUE
     /\ "context" \in DOMAIN aq.result /\ aq.result.context # ""
     /\ Len(aq.result.sources) >= 1

\* The invocation has read the configuration.
ConfigRead == aq.pc \in {"citation", "gate"} \/ Answered

\* C14: a gated response carries the action that names the configured gating
\* action; without a configuration row the threshold is 0.55 and the action
\* ask_clarify; and getPolicy, read from the same row, reports the threshold
\* and action answerQuestion applies.
C14_GatingActionAndPolicy ==
  /\ (Answered /\ aq.result.ok = FALSE)
       => aq.result.action =
            (CASE aq.lowConfidenceAction = "transfer" -> "TRANSFER"
               [] aq.lowConfidenceAction = "voicemail" -> "VOICEMAIL"
               [] aq.lowConfidenceAction = "ask_clarify" -> "CLARIFY")
  /\ (ConfigRead /\ ~aq.cfg.exists)
       => (aq.minConfidence = 55 /\ aq.lowConfidenceAction = "ask_clarify")
  /\ (ConfigRead /\ policy.read /\ policy.cfg = aq.cfg)
       => policy.value = [kbMinConfidence |-> aq.minConfidence,
                          lowConfidenceAction |-> aq.lowConfidenceAction]

\* Without a configuration row, getPolicy reported and answerQuestion gated a
\* question scored 0.54 with CLARIFY.
C14_Witness ==
  /\ Answered /\ ~aq.cfg.exists /\ policy.read /\ ~policy.cfg.exists
  /\ BestScore = 54
  /\ aq.result.action = "CLARIFY"

\* the audit records written for the current invocation
AuditRecords ==
  {i \in DOMAIN citationsLog : citationsLog[i].invocation = aq.n}

\* C15: an answerQuestion that returned a gated or approved result has written
\* exactly one audit record, holding the question, the resolved language and
\* the candidates with their scores.
C15_AnsweredMeansAudited ==
  Answered
  => /\ Cardinality(AuditRecords) = 1
     /\ \A i \in AuditRecords :
          /\ citationsLog[i].question = aq.question
          /\ citationsLog[i].language = aq.lang
          /\ citationsLog[i].sources = aq.res.sources

\* the message types of what the last operation wrote, in order
SentTypes == [i \in DOMAIN step.sent |-> step.sent[i].type]
\* the session is connected and its socket is open
Live == client.connected /\ client.ws # 0 /\ sockets[client.ws] = "open"
\* the keepalive messages the last operation wrote
Keepalives ==
  {i \in DOMAIN step.sent : step.sent[i].type = "session.update"
                            /\ step.sent[i].session = "keepalive"}

ProactiveCommit ==
  /\ step.op = "frame"
  /\ SentTypes = <<"input_audio_buffer.append", "input_audio_buffer.commit",
                   "response.create">>

\* C17: a proactive commit fires only when at least the threshold of bytes was
\* appended since the last turn boundary (response.completed or a commit).
C17_FlushCountsCurrentTurnOnly ==
  ProactiveCommit => hist.flushTurnBytes >= AutoFlushThreshold

\* C18: once close() has been called, and until the next connect(), the
\* client is not connected, no keepalive timer runs and no keepalive is sent;
\* a further close() leaves the client and its sockets as the first one did.
C18_CloseIdempotent ==
  /\ [](hist.closes > 0
          => /\ ~client.connected
             /\ ~client.heartbeatTimer
             /\ Keepalives = {})
  /\ [][(Close /\ hist.closes > 0)
          => (client' = client /\ sockets' = sockets)]_vars

\* close() was called twice on a session whose socket was connecting or open.
C18_Witness ==
  /\ step.op = "closeCall" /\ hist.closes = 2
  /\ client.ws # 0 /\ sockets[client.ws] = "closing"
  /\ ~client.connected /\ ~client.heartbeatTimer

C21_ConfigurationFirstAndOnce ==
  \A s \in SocketIds :
    /\ s \in hist.opened => (hist.configs[s] = 1 /\ hist.first[s] = "config")
    /\ s \notin hist.opened => (hist.configs[s] = 0 /\ hist.first[s] = "")

\* On the second session of the client a tool output is written to the socket
\* whose first and only configuration message went out at its open event.
C21_Witness ==
  /\ step.op = "toolResolved" /\ Len(step.sent) = 1
  /\ step.sent[1].to = 2
  /\ hist.first[2] = "config" /\ hist.configs[2] = 1
  /\ hist.first[1] = "config" /\ hist.configs[1] = 1

\* the last step was the message listener running on a well-formed message
Received == step.op \in {"message", "response.completed"} /\ step.msg \notin Malformed

\* C22: a well-formed inbound message invokes exactly the handler of its type:
\* audio delta, text delta, response completed, tool call, error; a message of
\* any other type invokes none.
C22_OneHandlerPerType ==
  Received
  => step.reported =
       CASE step.msg.type = "response.audio.delta" -> {"onAudioDelta"}
         [] step.msg.type = "response.output_text.delta" -> {"onTextDelta"}
         [] step.msg.type = "response.completed" -> {"onResponseCompleted"}
         [] step.msg.type \in ToolCallTypes -> {"onToolCall"}
         [] step.msg.type = "error" -> {"onError"}
         [] OTHER -> {}

ToolOutstanding == \E k \in ToolIds : inflight[k].state = "running"

\* C24: while a tool invocation is outstanding, an audio delta that arrives is
\* handed to onAudioDelta in the step of its arrival, and a frame appended on
\* the open session is written to the socket in the step of the append.
C24_AudioNotStalledByTool ==
  ToolOutstanding
  => /\ step.msg = AudioDelta => step.reported = {"onAudioDelta"}
     /\ (step.op = "frame" /\ Live)
          => (step.sent # <<>>
              /\ step.sent[1] = Message("input_audio_buffer.append", "", client.ws))

\* An audio delta is delivered on the session whose tool call has not resolved.
C24_Witness ==
  /\ \E k \in ToolIds : inflight[k].state = "running" /\ inflight[k].from = client.ws
  /\ Live
  /\ step.msg = AudioDelta /\ step.reported = {"onAudioDelta"}

\* C25: the tool.output of an invocation is written, if at all, to the socket
\* its tool call arrived on; once that socket has left the open state the
\* resolution writes nothing, not even to the socket of a later connect().
C25_LateOutputDiscarded ==
  (step.op = "toolResolved" /\ step.sent # <<>>)
  => \A i \in DOMAIN step.sent : step.sent[i].to = hist.resolvedFrom

\* C26: no connect attempt is still pending when the connect timeout has
\* passed: by then the socket has opened or the attempt was abandoned.
C26_ConnectAttemptEnds ==
  \A s \in SocketIds :
    sockets[s] = "connecting" => hist.connectWaited <= ConnectTimeoutTicks

C28_AvailabilityNeverNegative ==
  \A t \in Tiers : Available(event, t) >= 0

\* the rows of the table that are active, dated now or later, and match the
\* name filter of the last lookup
Upcoming ==
  {e \in EventRows : events[e].active /\ events[e].date >= Now
                     /\ (lookup.byName => events[e].named)}

\* C29: getEventInfo lists only active events dated now or later, in ascending
\* date order, at most 3 and as many as there are up to 3, none left out that
\* is earlier than one listed; nextEvent is the first and the earliest; with
\* no such event the result is {ok: false, message: "No upcoming events found"}.
C29_UpcomingEventsListed ==
  lookup.called
  => LET r == lookup.result
     IN IF Upcoming = {}
          THEN r = [ok |-> FALSE, message |-> "No upcoming events found"]
          ELSE /\ r.ok
               /\ Len(r.events) = (IF Cardinality(Upcoming) < 3
                                     THEN Cardinality(Upcoming) ELSE 3)
               /\ \A i \in DOMAIN r.events :
                    r.events[i].active /\ r.events[i].date >= Now
               /\ \A i, j \in DOMAIN r.events :
                    i < j => r.events[i].date <= r.events[j].date
               /\ r.nextEvent = r.events[1]
               /\ \A e \in Upcoming : r.nextEvent.date <= events[e].date

\* More than three upcoming events: three are listed, the earliest first.
C29_Witness ==
  /\ lookup.called /\ lookup.result.ok
  /\ Cardinality(Upcoming) > 3
  /\ Len(lookup.result.events) = 3
  /\ lookup.result.nextEvent.date = Now
  /\ lookup.result.events[3].date > Now

\* -------------------------------------------------------- manifest claims
\* C30: every manifest entry names a registered tool, and every tool that
\* handleToolCall has called for a tool-call event has a manifest entry.
C30_ManifestMatchesRegistry ==
  /\ ManifestNames \subseteq OwnTools
  /\ \A k \in CallIds :
       (calls[k].ran /\ ToolName(calls[k].evt) \in OwnTools)
         => ToolName(calls[k].evt) \in ManifestNames

\* ------------------------------------------------------- telephony claims
\* C31: a voicemail never settles as stored (thank-you message and hangup)
\* without a transcription job for its recording in the queue.
C31_TranscriptionEnqueuedBeforeStored ==
  \A r \in Recordings : vm[r] = "stored" => r \in jobs

\* The statuses the status callback contract calls ended.
EndedByContract == {"completed", "busy", "no-answer", "canceled", "failed"}

CompletedQuantityOf(i, t) ==
  LET rows == {r \in ticketPurchase : /\ r.stripePaymentId = i
                                      /\ r.ticketType = t
                                      /\ r.paymentStatus = "completed"}
  IN IF rows = {} THEN 0 ELSE (CHOOSE r \in rows : TRUE).quantity

\* The total quantity of the completed ticket purchases of tier t.
CompletedQuantity(t) ==
  LET total[n \in 0..(NumVoice + NumWeb)] ==
        IF n = 0 THEN 0 ELSE total[n - 1] + CompletedQuantityOf(n, t)
  IN total[NumVoice + NumWeb]

\* What the sold counter of tier t held before the first purchase.
SoldAtStart(t) == IF t = "VIP" THEN VipCapacity - 1 ELSE GaCapacity - 1

\* No handler is between writing a purchase's status and writing the counter.
NoWriteInProgress ==
  /\ \A p \in VoiceProcs : voice[p].pc \notin {"record", "counter"}
  /\ \A i \in IntentIds : webhook[i].pc = "idle"

\* C33: whenever no handler is halfway through its two writes, the sold
\* counter of a tier has grown by exactly the total quantity of the tier's
\* ticket purchases whose payment status is completed: each confirmed
\* purchase is counted once, whether the voice path, the payment-succeeded
\* webhook, or both handled its payment intent.
C33_SoldEqualsCompletedPurchases ==
  NoWriteInProgress =>
    \A t \in Tiers : SoldOf(event, t) - SoldAtStart(t) = CompletedQuantity(t)

\* The payment status of the ticket purchase of payment intent i.
StatusOf(table, i) ==
  LET rows == {r \in table : r.stripePaymentId = i}
  IN IF rows = {} THEN "none" ELSE (CHOOSE r \in rows : TRUE).paymentStatus

\* The handling of a payment_intent.succeeded event of intent i that was
\* delivered before: its status update, or its counter update.
RedeliveryStep(i) ==
  \/ webhook[i].pc = "idle" /\ webhook[i].delivered > 0 /\ webhook'[i].pc = "counts"
  \/ webhook[i].pc = "counts" /\ webhook[i].delivered > 1 /\ webhook'[i].pc = "idle"

\* C34: handling a payment_intent.succeeded event that was delivered before
\* changes neither the purchase's status nor a sold counter.
C34_SucceededWebhookIdempotent ==
  [][\A i \in IntentIds :
       RedeliveryStep(i) =>
         /\ event' = event
         /\ StatusOf(ticketPurchase', i) = StatusOf(ticketPurchase, i)]_vars

\* C35: the payment status of a ticket purchase only moves from pending to
\* completed or from pending to failed; a completed purchase stays completed
\* and a failed one stays failed, whatever webhook events arrive and in
\* whatever order.
C35_CompletedAndFailedAreTerminal ==
  [][\A i \in IntentIds :
       StatusOf(ticketPurchase, i) \in {"completed", "failed"}
         => StatusOf(ticketPurchase', i) = StatusOf(ticketPurchase, i)]_vars

\* C36: a purchaseTickets invocation that found its event inactive or past
\* charges no card and, once it has returned, has returned a failure.
C36_NoSaleForClosedEvent ==
  \A p \in VoiceProcs :
    voice[p].seenClosed =>
      /\ ~voice[p].charged
      /\ voice[p].pc = "done" => ~IsOk(voice[p].result)

\* ------------------------------------------------ session ownership claims
\* C37: the client's uncommitted byte counter follows what was written to
\* the socket: a media frame or a commit whose messages send() dropped
\* (the socket is not open) leaves the counter as it was.
C37_CounterMatchesWire ==
  [][(step'.op \in {"frame", "commit"} /\ step'.sent = <<>>)
       => client'.pendingBytes = client.pendingBytes]_vars

\* After close() no socket of the client is connecting or open.
NoSocketLeftOpen ==
  step.op = "closeCall" => \A s \in SocketIds : sockets[s] \notin {"connecting", "open"}

\* While the client's current socket is open, the client is connected and
\* its keepalive timer is armed.
CurrentSessionStaysConnected ==
  (client.ws # 0 /\ sockets[client.ws] = "open")
    => client.connected /\ client.heartbeatTimer

\* C38: a client owns at most one live socket: close() leaves none of its
\* sockets open, whatever connect() and close() calls came before, and the
\* connected flag and the keepalive timer follow the current socket only: the
\* close event of an earlier socket does not disconnect the open session.
C38_OneLiveSocket ==
  NoSocketLeftOpen /\ CurrentSessionStaysConnected

\* C39: for a message that arrives on the closing socket after close(), no
\* handler of the owner is invoked (nothing is relayed to the telephony leg,
\* no tool invocation is started).
C39_NoHandlerAfterClose ==
  step.op = "messageAfterClose" => step.reported = {}

\* C40: once an ended status callback has set the outcome and endedAt of a
\* call log, no later status callback for the CallSid changes either field.
C40_OutcomeIsFinal ==
  [][\A c \in CallSids :
       callLog[c].ended =>
         /\ callLog'[c].ended
         /\ callLog'[c].endedAt = callLog[c].endedAt
         /\ callLog'[c].outcome = callLog[c].outcome]_vars

====
